---- MODULE Spec2Model ----
(***************************************************************************)
(* A model of the request-processing kernel of the public-data gateway:    *)
(* the token-bucket rate limiter, the LRU cache, the API-key registry, the *)
(* upstream client and the handler glue.                                   *)
(*                                                                         *)
(* Time is in milliseconds since process start (Date.now() minus the       *)
(* start instant).  Token counts are JavaScript doubles in the source; the *)
(* model keeps them as exact rationals: a bucket of tier T stores its      *)
(* tokens in units of 1/Scale(T) token, Scale(T) = window/requests being   *)
(* the number of milliseconds that refill one token.  Rounding of IEEE     *)
(* doubles is not modelled.                                                *)
(***************************************************************************)
EXTENDS Integers, Sequences, FiniteSets, TLC

VARIABLES
    now,          \* Date.now(), ms since process start
    nextCleanup,  \* instant at which the hourly setInterval timer is due
    rl,           \* TokenBucketRateLimiter: [buckets, stats, violations]
    rlResult,     \* the RateLimitResult returned by the last limiter call
    allowedAt,    \* history: per bucket key, instant -> number of allowed checkLimit calls
    deniedAt,     \* history: per bucket key, the last refusal of checkLimit not yet followed
                  \* by an allowed one [at, retryAfter]
    calls,        \* history: number of client and limiter operations since the initial state
    log,          \* the set of records handed to the logger
    cache,        \* LRUCacheManager: [entries, max, maxSize, stats]
    cacheResult,  \* what the last cache operation returned
    lastSet,      \* history: per full key, the last set made for it [at, ttl, value]
    resp,         \* the HTTP response of the last request handled
    keys,         \* ApiKeyManager: provider -> [key, expiryDate, status, lastUsed]
    keyResult,    \* what the last getKey returned or threw
    client,       \* PublicDataClient.stats
    inflight,     \* the get / getCached calls: call id -> where the call stands
    processEnv,   \* process.env: [NODE_ENV, STRICT_KOREA_BOUNDS]
    engine        \* the call of the coordinate engine the last step made, and what it returned

cacheVars == <<cache, cacheResult, lastSet>>

limiterVars == <<nextCleanup, rl, rlResult, allowedAt, deniedAt>>

keyVars == <<keys, keyResult>>

clientVars == <<client, inflight>>

\* everything but the clock, the log, the call count and the limiter
nonLimiterVars == <<cacheVars, resp, keyVars, clientVars, processEnv, engine>>

\* everything but the clock, the log, the call count and the cache
nonCacheVars == <<limiterVars, resp, keyVars, clientVars, processEnv, engine>>

\* everything but the clock, the log, the call count and the key registry
nonKeyVars == <<limiterVars, cacheVars, resp, clientVars, processEnv, engine>>

vars == <<now, calls, log, limiterVars, cacheVars, resp, keyVars, clientVars, processEnv, engine>>

----------------------------------------------------------------------------
(* Generic helpers *)

Min(a, b) == IF a <= b THEN a ELSE b

Max(a, b) == IF a >= b THEN a ELSE b

\* Math.ceil(a / b) for a >= 0, b > 0
CeilDiv(a, b) == (a + b - 1) \div b

\* Map.set
Put(f, k, v) == [x \in (DOMAIN f) \cup {k} |-> IF x = k THEN v ELSE f[x]]

\* Map.delete of every key in S
Drop(f, S) == [x \in (DOMAIN f) \ S |-> f[x]]

EmptyMap == [x \in {} |-> 0]

\* an optional field that is absent (retryAfter?: number)
Undefined == -1

----------------------------------------------------------------------------
(* Rate-limit policies: RATE_LIMIT_POLICIES *)

Tiers == {"anonymous", "authenticated", "premium"}

WindowMs == 3600000

AnonymousRequests == 100

AuthenticatedRequests == 1000

PremiumRequests == 10000

PolicyRequests(tier) ==
    CASE tier = "anonymous" -> AnonymousRequests
      [] tier = "authenticated" -> AuthenticatedRequests
      [] tier = "premium" -> PremiumRequests

PolicyWindow(tier) == WindowMs

\* milliseconds that refill one token: 1 / refillRate = window / requests
Scale(tier) == PolicyWindow(tier) \div PolicyRequests(tier)

CleanupIntervalMs == 3600000

ViolationRetentionMs == 3600000

StaleBucketMs == 7200000

----------------------------------------------------------------------------
(* Logger: a record is [msg, secretFields], secretFields being the string  *)
(* values of its context that derive from request identifiers or           *)
(* parameters (the only places a credential can travel).                   *)

LogRec(msg, fields) == [msg |-> msg, fields |-> fields]

----------------------------------------------------------------------------
(* TokenBucketRateLimiter *)

getBucketKey(identifier, tier) == <<tier, identifier>>

\* tokens are kept in units of 1/Scale(tier) token
MutCreateBucketShort(tier, t) ==
    [ tokens     |-> (PolicyRequests(tier) - 1) * Scale(tier),
      lastRefill |-> t,
      capacity   |-> PolicyRequests(tier),
      refillRate |-> (PolicyRequests(tier) * Scale(tier)) \div PolicyWindow(tier) ]

createBucket(tier, t) ==
    [ tokens     |-> PolicyRequests(tier) * Scale(tier),
      lastRefill |-> t,
      capacity   |-> PolicyRequests(tier),
      \* token units per ms: (requests / window) * Scale
      refillRate |-> (PolicyRequests(tier) * Scale(tier)) \div PolicyWindow(tier) ]

\* a refill that forgets to advance lastRefill
MutRefillKeepsLastRefill(bucket, tier, t) ==
    LET timePassed == t - bucket.lastRefill IN
    IF timePassed <= 0 THEN bucket
    ELSE [bucket EXCEPT
            !.tokens = Min(bucket.capacity * Scale(tier),
                           bucket.tokens + timePassed * bucket.refillRate)]

\* a refill that does not clamp at capacity
MutRefillUnclamped(bucket, tier, t) ==
    LET timePassed == t - bucket.lastRefill IN
    IF timePassed <= 0 THEN bucket
    ELSE [bucket EXCEPT
            !.tokens = bucket.tokens + timePassed * bucket.refillRate,
            !.lastRefill = t]

refillTokens(bucket, tier, t) ==
    LET timePassed == t - bucket.lastRefill IN
    IF timePassed <= 0 THEN bucket
    ELSE [bucket EXCEPT
            !.tokens = Min(bucket.capacity * Scale(tier),
                           bucket.tokens + timePassed * bucket.refillRate),
            !.lastRefill = t]

\* Math.floor(bucket.tokens)
FloorTokens(bucket, tier) == bucket.tokens \div Scale(tier)

\* Math.ceil((lastRefill + (capacity - tokens) / refillRate) / 1000)
calculateResetTime(bucket, tier) ==
    CeilDiv(bucket.lastRefill * bucket.refillRate
              + (bucket.capacity * Scale(tier) - bucket.tokens),
            1000 * bucket.refillRate)

\* a retryAfter that waits for half a token only
MutRetryAfterHalfToken(bucket, tier) ==
    CeilDiv(Scale(tier), 2000 * bucket.refillRate)

\* Math.ceil((1 / refillRate) / 1000)
calculateRetryAfter(bucket, tier) ==
    CeilDiv(Scale(tier), 1000 * bucket.refillRate)

recordViolation(violations, identifier, tier, limit, t) ==
    LET pushed == Append(violations,
                         [ identifier |-> identifier, tier |-> tier, timestamp |-> t,
                           attemptedRequests |-> 1, limit |-> limit ])
        Recent(v) == v.timestamp > t - ViolationRetentionMs
    IN SelectSeq(pushed, Recent)

\* the bucket checkLimit / getStatus work on: the stored one, or a new one
LookupBucket(limiter, identifier, tier, t) ==
    LET key == getBucketKey(identifier, tier) IN
    IF key \in DOMAIN limiter.buckets THEN limiter.buckets[key]
    ELSE createBucket(tier, t)

\* a checkLimit that admits without taking the token
MutCheckLimitNoConsume(limiter, identifier, tier, t) ==
    LET key    == getBucketKey(identifier, tier)
        bucket == refillTokens(LookupBucket(limiter, identifier, tier, t), tier, t)
        limit  == PolicyRequests(tier)
    IN
    IF bucket.tokens >= Scale(tier)
    THEN LET used == bucket IN
         [ limiter |-> [limiter EXCEPT
                          !.buckets = Put(limiter.buckets, key, used),
                          !.stats.totalRequests = @ + 1,
                          !.stats.allowed = @ + 1],
           result  |-> [ allowed |-> TRUE, remaining |-> FloorTokens(used, tier),
                         reset |-> calculateResetTime(used, tier), limit |-> limit,
                         retryAfter |-> Undefined ],
           logs    |-> {LogRec("Rate limit check: allowed", {identifier})} ]
    ELSE [ limiter |-> [limiter EXCEPT
                          !.buckets = Put(limiter.buckets, key, bucket),
                          !.stats.totalRequests = @ + 1,
                          !.stats.blocked = @ + 1,
                          !.stats.violations = @ + 1,
                          !.violations = recordViolation(limiter.violations, identifier,
                                                         tier, limit, t)],
           result  |-> [ allowed |-> FALSE, remaining |-> 0,
                         reset |-> calculateResetTime(bucket, tier), limit |-> limit,
                         retryAfter |-> calculateRetryAfter(bucket, tier) ],
           logs    |-> {LogRec("Rate limit exceeded", {identifier})} ]

\* checkLimit(identifier, tier) at instant t: the limiter after the call, the
\* RateLimitResult it returns and the log records it writes
checkLimit(limiter, identifier, tier, t) ==
    LET key    == getBucketKey(identifier, tier)
        bucket == refillTokens(LookupBucket(limiter, identifier, tier, t), tier, t)
        limit  == PolicyRequests(tier)
    IN
    IF bucket.tokens >= Scale(tier)
    THEN LET used == [bucket EXCEPT !.tokens = bucket.tokens - Scale(tier)] IN
         [ limiter |-> [limiter EXCEPT
                          !.buckets = Put(limiter.buckets, key, used),
                          !.stats.totalRequests = @ + 1,
                          !.stats.allowed = @ + 1],
           result  |-> [ allowed |-> TRUE, remaining |-> FloorTokens(used, tier),
                         reset |-> calculateResetTime(used, tier), limit |-> limit,
                         retryAfter |-> Undefined ],
           logs    |-> {LogRec("Rate limit check: allowed", {identifier})} ]
    ELSE [ limiter |-> [limiter EXCEPT
                          !.buckets = Put(limiter.buckets, key, bucket),
                          !.stats.totalRequests = @ + 1,
                          !.stats.blocked = @ + 1,
                          !.stats.violations = @ + 1,
                          !.violations = recordViolation(limiter.violations, identifier,
                                                         tier, limit, t)],
           result  |-> [ allowed |-> FALSE, remaining |-> 0,
                         reset |-> calculateResetTime(bucket, tier), limit |-> limit,
                         retryAfter |-> calculateRetryAfter(bucket, tier) ],
           logs    |-> {LogRec("Rate limit exceeded", {identifier})} ]

\* a getStatus that takes the token it reports
MutGetStatusConsumes(limiter, identifier, tier, t) ==
    LET key    == getBucketKey(identifier, tier)
        bucket == refillTokens(LookupBucket(limiter, identifier, tier, t), tier, t)
        used   == IF bucket.tokens >= Scale(tier)
                  THEN [bucket EXCEPT !.tokens = bucket.tokens - Scale(tier)] ELSE bucket
    IN
    [ limiter |-> [limiter EXCEPT !.buckets = Put(limiter.buckets, key, used)],
      result  |-> [ allowed |-> bucket.tokens >= Scale(tier),
                    remaining |-> FloorTokens(bucket, tier),
                    reset |-> calculateResetTime(bucket, tier),
                    limit |-> PolicyRequests(tier),
                    retryAfter |-> Undefined ],
      logs    |-> {} ]

\* getStatus(identifier, tier): refills (and stores) the bucket, consumes nothing
getStatus(limiter, identifier, tier, t) ==
    LET key    == getBucketKey(identifier, tier)
        bucket == refillTokens(LookupBucket(limiter, identifier, tier, t), tier, t)
    IN
    [ limiter |-> [limiter EXCEPT !.buckets = Put(limiter.buckets, key, bucket)],
      result  |-> [ allowed |-> bucket.tokens >= Scale(tier),
                    remaining |-> FloorTokens(bucket, tier),
                    reset |-> calculateResetTime(bucket, tier),
                    limit |-> PolicyRequests(tier),
                    retryAfter |-> Undefined ],
      logs    |-> {} ]

\* a reset that drops the buckets of the identifier in every tier
MutResetEveryTier(limiter, identifier, tier) ==
    [limiter EXCEPT
        !.buckets = Drop(limiter.buckets, {getBucketKey(identifier, r) : r \in Tiers})]

\* reset(identifier, tier)
resetBucket(limiter, identifier, tier) ==
    [limiter EXCEPT !.buckets = Drop(limiter.buckets, {getBucketKey(identifier, tier)})]

\* resetAll()
resetAll(limiter) == [limiter EXCEPT !.buckets = EmptyMap]

\* a cleanup that drops the buckets whose last refill is half an hour old
MutCleanupHalfHour(limiter, t) ==
    LET halfHourAgo == t - 1800000
        stale == {k \in DOMAIN limiter.buckets :
                     limiter.buckets[k].lastRefill < halfHourAgo}
    IN [limiter EXCEPT !.buckets = Drop(limiter.buckets, stale)]

\* cleanup(): drop the buckets whose last refill is more than two hours old
cleanup(limiter, t) ==
    LET twoHoursAgo == t - StaleBucketMs
        stale == {k \in DOMAIN limiter.buckets :
                     limiter.buckets[k].lastRefill < twoHoursAgo}
    IN [limiter EXCEPT !.buckets = Drop(limiter.buckets, stale)]

\* Math.round((part / total) * 100 * 100) / 100, in hundredths of a percent;
\* 0 when total is 0
RatePercent(part, total) ==
    IF total > 0 THEN (2 * part * 10000 + total) \div (2 * total) ELSE 0

\* RateLimiter.getStats()
limiterGetStats(limiter) ==
    [ totalRequests    |-> limiter.stats.totalRequests,
      allowed          |-> limiter.stats.allowed,
      blocked          |-> limiter.stats.blocked,
      violations       |-> limiter.stats.violations,
      blockRate        |-> RatePercent(limiter.stats.blocked, limiter.stats.totalRequests),
      activeBuckets    |-> Cardinality(DOMAIN limiter.buckets),
      recentViolations |-> Len(limiter.violations) ]

\* RateLimiter.getViolations(identifier); an identifier that is omitted or
\* empty is falsy, written ""
getViolations(limiter, identifier) ==
    IF identifier # ""
    THEN LET Mine(v) == v.identifier = identifier IN SelectSeq(limiter.violations, Mine)
    ELSE limiter.violations

\* a resetStats that leaves the violation records in place
MutResetStatsKeepRecords(limiter) ==
    [limiter EXCEPT
        !.stats = [totalRequests |-> 0, allowed |-> 0, blocked |-> 0, violations |-> 0]]

\* RateLimiter.resetStats()
limiterResetStats(limiter) ==
    [limiter EXCEPT
        !.stats = [totalRequests |-> 0, allowed |-> 0, blocked |-> 0, violations |-> 0],
        !.violations = <<>>]

NewLimiter ==
    [ buckets    |-> EmptyMap,
      stats      |-> [totalRequests |-> 0, allowed |-> 0, blocked |-> 0, violations |-> 0],
      violations |-> <<>> ]

NoResult ==
    [ op |-> "none", key |-> <<"none", "none">>, allowed |-> FALSE, remaining |-> 0,
      reset |-> 0, limit |-> 0, retryAfter |-> Undefined ]

ResultOf(op, key, r) ==
    [ op |-> op, key |-> key, allowed |-> r.allowed, remaining |-> r.remaining,
      reset |-> r.reset, limit |-> r.limit, retryAfter |-> r.retryAfter ]

\* history of allowed calls: one more at instant t for bucket key
NoteAllowed(hist, key, t) ==
    LET h == IF key \in DOMAIN hist THEN hist[key] ELSE EmptyMap
        n == IF t \in DOMAIN h THEN h[t] ELSE 0
    IN Put(hist, key, Put(h, t, n + 1))

\* history of refusals: the refusal of bucket key at instant t, forgotten
\* when a call on that bucket is allowed
NoteResult(hist, key, result, t) ==
    IF result.allowed THEN Drop(hist, {key})
    ELSE Put(hist, key, [at |-> t, retryAfter |-> result.retryAfter])

----------------------------------------------------------------------------
(* LRUCacheManager over lru-cache (^11): entries are kept in recency order,  *)
(* least recently used first.  A stored entry is the wrapper's CacheEntry    *)
(* together with lru-cache's own bookkeeping for it (start, ttl).  Both       *)
(* clocks (Date.now and lru-cache's performance.now) are the model's now.    *)

CacheTypes == {"address", "building", "coordinate", "realtime", "static"}

\* CACHE_TTL_POLICIES, seconds
CacheTtlPolicy(type) ==
    CASE type = "address" -> 86400
      [] type = "building" -> 86400
      [] type = "coordinate" -> 604800
      [] type = "realtime" -> 300
      [] type = "static" -> 2592000

\* null, as a cached or returned value
Null == [null |-> TRUE]

\* the constructor's defaultConfig
DefaultMax == 1000

DefaultMaxSize == 52428800

buildKey(type, key) == <<type, key>>

getTTL(type, customTTL) ==
    IF customTTL # Undefined THEN customTTL * 1000 ELSE CacheTtlPolicy(type) * 1000

\* characters of JSON.stringify(entry) around the value: the field names, the
\* full key and two 13-digit instants
EntryFrameChars == 109

\* characters of a serialized point such as {"x":200000,"y":600000}
PointJsonChars == 23

\* JSON.stringify(value).length; Undefined when the value does not serialize
JsonChars(value) == IF "chars" \in DOMAIN value THEN value.chars ELSE PointJsonChars

\* JSON.stringify(entry).length * 2, or 1024 when the value does not serialize
calculateSize(value) ==
    IF JsonChars(value) = Undefined THEN 1024 ELSE 2 * (EntryFrameChars + JsonChars(value))

IndexOf(entries, fullKey) ==
    IF \E i \in 1..Len(entries) : entries[i].key = fullKey
    THEN CHOOSE i \in 1..Len(entries) : entries[i].key = fullKey
    ELSE 0

RemoveAt(s, i) == SubSeq(s, 1, i - 1) \o SubSeq(s, i + 1, Len(s))

RECURSIVE calculatedSize(_)
calculatedSize(entries) ==
    IF entries = <<>> THEN 0 ELSE Head(entries).size + calculatedSize(Tail(entries))

\* the dispose callback
DisposeLog(e) == LogRec("Cache entry evicted", {e.key[2]})

\* lru-cache #isStale
isStale(e, t) == e.ttl # 0 /\ t - e.start > e.ttl

\* lru-cache #addItemSize: evict from the head while the new size does not fit
RECURSIVE lruEvictToFit(_, _)
lruEvictToFit(entries, room) ==
    IF entries # <<>> /\ calculatedSize(entries) > room
    THEN LET r == lruEvictToFit(Tail(entries), room) IN
         [entries |-> r.entries, logs |-> r.logs \cup {DisposeLog(Head(entries))}]
    ELSE [entries |-> entries, logs |-> {}]

\* lru-cache delete(k)
lruDelete(entries, fullKey) ==
    LET i == IndexOf(entries, fullKey) IN
    IF i = 0 THEN [entries |-> entries, deleted |-> FALSE, logs |-> {}]
    ELSE [entries |-> RemoveAt(entries, i), deleted |-> TRUE,
          logs |-> {DisposeLog(entries[i])}]

\* an lru-cache set that ignores maxSize
MutLruSetNoSizeCap(c, e) ==
    LET i == IndexOf(c.entries, e.key) IN
    IF i = 0
    THEN LET byCount == IF Len(c.entries) = c.max
                        THEN [entries |-> Tail(c.entries),
                              logs |-> {DisposeLog(Head(c.entries))}]
                        ELSE [entries |-> c.entries, logs |-> {}]
         IN [entries |-> Append(byCount.entries, e), logs |-> byCount.logs]
    ELSE [entries |-> Append(RemoveAt(c.entries, i), e),
          logs |-> {DisposeLog(c.entries[i])}]

\* lru-cache set(k, v, {ttl, size}) with maxEntrySize = maxSize
lruSet(c, e) ==
    LET i == IndexOf(c.entries, e.key) IN
    IF e.size > c.maxSize
    THEN LET d == lruDelete(c.entries, e.key) IN [entries |-> d.entries, logs |-> d.logs]
    ELSE IF i = 0
    THEN LET byCount == IF Len(c.entries) = c.max
                        THEN [entries |-> Tail(c.entries),
                              logs |-> {DisposeLog(Head(c.entries))}]
                        ELSE [entries |-> c.entries, logs |-> {}]
             fit == lruEvictToFit(byCount.entries, c.maxSize - e.size)
         IN [entries |-> Append(fit.entries, e), logs |-> byCount.logs \cup fit.logs]
    ELSE LET fit == lruEvictToFit(RemoveAt(c.entries, i), c.maxSize - e.size) IN
         [entries |-> Append(fit.entries, e),
          logs |-> {DisposeLog(c.entries[i])} \cup fit.logs]

\* an lru-cache get that leaves the entry where it is in the recency order
MutLruGetNoRefresh(entries, fullKey, t) ==
    LET i == IndexOf(entries, fullKey) IN
    IF i = 0 THEN [entries |-> entries, found |-> FALSE, logs |-> {}]
    ELSE IF isStale(entries[i], t)
    THEN [entries |-> RemoveAt(entries, i), found |-> FALSE,
          logs |-> {DisposeLog(entries[i])}]
    ELSE [entries |-> <<[entries[i] EXCEPT !.start = t]>> \o RemoveAt(entries, i),
          found |-> TRUE, logs |-> {}]

\* lru-cache get(k) with updateAgeOnGet
lruGet(entries, fullKey, t) ==
    LET i == IndexOf(entries, fullKey) IN
    IF i = 0 THEN [entries |-> entries, found |-> FALSE, logs |-> {}]
    ELSE IF isStale(entries[i], t)
    THEN [entries |-> RemoveAt(entries, i), found |-> FALSE,
          logs |-> {DisposeLog(entries[i])}]
    ELSE [entries |-> Append(RemoveAt(entries, i), [entries[i] EXCEPT !.start = t]),
          found |-> TRUE, logs |-> {}]

NewCache(max, maxSize) ==
    [ entries |-> <<>>, max |-> max, maxSize |-> maxSize,
      stats |-> [hits |-> 0, misses |-> 0, sets |-> 0, deletes |-> 0] ]

NoCacheResult ==
    [ op |-> "none", key |-> <<"none", "none">>, hit |-> FALSE, value |-> Null,
      hadKey |-> FALSE, countBefore |-> 0, missesBefore |-> 0 ]

\* what an operation on fullKey returned, and what the cache was before it
CacheResultOf(op, fullKey, hit, value, before) ==
    [ op |-> op, key |-> fullKey, hit |-> hit, value |-> value,
      hadKey |-> IndexOf(before.entries, fullKey) # 0,
      countBefore |-> Len(before.entries),
      missesBefore |-> before.stats.misses ]

\* set(type, key, value, options): options.ttl is customTTL (seconds) or absent
cacheSet(c, type, key, value, customTTL, t) ==
    LET fullKey == buildKey(type, key)
        ttl == getTTL(type, customTTL)
        e == [ key |-> fullKey, value |-> value, createdAt |-> t, expiresAt |-> t + ttl,
               hits |-> 0, size |-> calculateSize(value), start |-> t, ttl |-> ttl ]
        r == lruSet(c, e)
    IN [ cache |-> [c EXCEPT !.entries = r.entries, !.stats.sets = @ + 1],
         logs  |-> r.logs \cup {LogRec("Cache set", {key})} ]

\* a get whose hit comes back without the stored value
MutCacheGetNoValue(c, type, key, t) ==
    LET fullKey == buildKey(type, key)
        g == lruGet(c.entries, fullKey, t)
    IN
    IF ~g.found
    THEN [ cache |-> [c EXCEPT !.entries = g.entries, !.stats.misses = @ + 1],
           result |-> [hit |-> FALSE, value |-> Null],
           logs |-> g.logs \cup {LogRec("Cache miss", {key})} ]
    ELSE LET last == Len(g.entries) IN
         IF g.entries[last].expiresAt < t
         THEN LET d == lruDelete(g.entries, fullKey) IN
              [ cache |-> [c EXCEPT !.entries = d.entries, !.stats.misses = @ + 1],
                result |-> [hit |-> FALSE, value |-> Null],
                logs |-> d.logs \cup {LogRec("Cache expired", {key})} ]
         ELSE [ cache |-> [c EXCEPT !.entries = [g.entries EXCEPT ![last].hits = @ + 1],
                                    !.stats.hits = @ + 1],
                result |-> [hit |-> TRUE, value |-> Null],
                logs |-> {LogRec("Cache hit", {key})} ]

\* get(type, key)
cacheGet(c, type, key, t) ==
    LET fullKey == buildKey(type, key)
        g == lruGet(c.entries, fullKey, t)
    IN
    IF ~g.found
    THEN [ cache |-> [c EXCEPT !.entries = g.entries, !.stats.misses = @ + 1],
           result |-> [hit |-> FALSE, value |-> Null],
           logs |-> g.logs \cup {LogRec("Cache miss", {key})} ]
    ELSE LET last == Len(g.entries) IN
         IF g.entries[last].expiresAt < t
         THEN LET d == lruDelete(g.entries, fullKey) IN
              [ cache |-> [c EXCEPT !.entries = d.entries, !.stats.misses = @ + 1],
                result |-> [hit |-> FALSE, value |-> Null],
                logs |-> d.logs \cup {LogRec("Cache expired", {key})} ]
         ELSE [ cache |-> [c EXCEPT !.entries = [g.entries EXCEPT ![last].hits = @ + 1],
                                    !.stats.hits = @ + 1],
                result |-> [hit |-> TRUE, value |-> g.entries[last].value],
                logs |-> {LogRec("Cache hit", {key})} ]

\* delete(type, key)
cacheDelete(c, type, key) ==
    LET d == lruDelete(c.entries, buildKey(type, key)) IN
    IF d.deleted
    THEN [ cache |-> [c EXCEPT !.entries = d.entries, !.stats.deletes = @ + 1],
           deleted |-> TRUE,
           logs |-> d.logs \cup {LogRec("Cache delete", {key})} ]
    ELSE [ cache |-> c, deleted |-> FALSE, logs |-> {} ]

\* deleteByType(type): keys() passes over the stale entries
cacheDeleteByType(c, type, t) ==
    LET gone(e) == e.key[1] = type /\ ~isStale(e, t)
        kept(e) == ~gone(e)
        removed == SelectSeq(c.entries, gone)
        count == Len(removed)
    IN [ cache |-> [c EXCEPT !.entries = SelectSeq(c.entries, kept),
                             !.stats.deletes = @ + count],
         count |-> count,
         logs |-> {DisposeLog(removed[i]) : i \in 1..count}
                  \cup (IF count > 0 THEN {LogRec("Cache type cleared", {})} ELSE {}) ]

\* clear()
cacheClear(c) ==
    [ cache |-> [c EXCEPT !.entries = <<>>],
      logs |-> {DisposeLog(c.entries[i]) : i \in 1..Len(c.entries)}
               \cup {LogRec("Cache cleared", {})} ]

\* has(type, key)
cacheHas(c, type, key, t) ==
    LET i == IndexOf(c.entries, buildKey(type, key)) IN
    i # 0 /\ ~isStale(c.entries[i], t)

\* getRemainingTTL(type, key): lru-cache's ttl - age, never below 0
getRemainingTTL(c, type, key, t) ==
    LET i == IndexOf(c.entries, buildKey(type, key)) IN
    IF i = 0 THEN 0
    ELSE Max(0, c.entries[i].ttl - (t - c.entries[i].start))

\* resetStats()
cacheResetStats(c) ==
    [c EXCEPT !.stats = [hits |-> 0, misses |-> 0, sets |-> 0, deletes |-> 0]]

\* LRUCacheManager.getDetailedStats(), which extends getStats()
cacheGetDetailedStats(c) ==
    [ hits    |-> c.stats.hits,
      misses  |-> c.stats.misses,
      size    |-> Len(c.entries),
      maxSize |-> c.max,
      hitRate |-> RatePercent(c.stats.hits, c.stats.hits + c.stats.misses),
      sets    |-> c.stats.sets,
      deletes |-> c.stats.deletes,
      calculatedSize    |-> calculatedSize(c.entries),
      maxCalculatedSize |-> c.maxSize ]

----------------------------------------------------------------------------
(* Errors and the response envelope *)

\* an AppError subclass instance: code, statusCode, retryable
AppError(code, statusCode, retryable) ==
    [kind |-> "app", code |-> code, statusCode |-> statusCode, retryable |-> retryable,
     message |-> "message of the AppError"]

\* an Error that is no AppError
PlainError(name) == [kind |-> "error", name |-> name, message |-> "message of the Error"]

\* the engine's own CoordinateError extends Error, not AppError
EngineCoordinateError == PlainError("CoordinateError")

isAppError(error) == error.kind = "app"

\* toErrorInfo(error): code, message and retryable (details are left out)
toErrorInfo(error) ==
    IF isAppError(error)
    THEN [code |-> error.code, message |-> error.message, retryable |-> error.retryable]
    ELSE IF error.kind = "zod"
    THEN [code |-> "VALIDATION_ERROR", message |-> "Request validation failed",
          retryable |-> FALSE]
    ELSE IF error.kind = "error"
    THEN [code |-> "UNKNOWN_ERROR", message |-> error.message, retryable |-> FALSE]
    ELSE [code |-> "UNKNOWN_ERROR", message |-> "An unknown error occurred",
          retryable |-> FALSE]

GenericMessage == "An unexpected error occurred"

\* handleError(error) under NODE_ENV = nodeEnv: the ErrorInfo, the status and
\* the record it logs
handleError(error, nodeEnv) ==
    IF isAppError(error)
    THEN [ error |-> toErrorInfo(error), statusCode |-> error.statusCode,
           logs |-> {LogRec(error.code, {})} ]
    ELSE IF error.kind = "zod"
    THEN [ error |-> [code |-> "VALIDATION_ERROR", message |-> "Invalid request data",
                      retryable |-> FALSE],
           statusCode |-> 400,
           logs |-> {LogRec("Validation Error", {})} ]
    ELSE IF error.kind = "error"
    THEN [ error |-> [code |-> "INTERNAL_ERROR",
                      message |-> IF nodeEnv = "production" THEN GenericMessage
                                  ELSE error.message,
                      retryable |-> FALSE],
           statusCode |-> 500,
           logs |-> {LogRec("Unknown Error", {})} ]
    ELSE [ error |-> [code |-> "UNKNOWN_ERROR", message |-> GenericMessage,
                      retryable |-> FALSE],
           statusCode |-> 500,
           logs |-> {LogRec("Unknown error type", {})} ]

\* the codes of the program for which code.startsWith('INTERNAL_')
InternalCodes == {"INTERNAL_ERROR", "INTERNAL_SERVER_ERROR"}

\* maskError(error) under NODE_ENV = nodeEnv
maskError(info, nodeEnv) ==
    IF nodeEnv = "production"
       /\ (info.code \in InternalCodes \/ info.code = "UNKNOWN_ERROR")
    THEN [code |-> info.code, message |-> GenericMessage, retryable |-> info.retryable]
    ELSE info

getErrorStatusCode(error) == IF isAppError(error) THEN error.statusCode ELSE 500

\* the body of a response: success, data, error (metadata is left out)
Envelope(success, data, error) == [success |-> success, data |-> data, error |-> error]

\* a body with its metadata: cached (timestamp and processingTime are left out)
EnvelopeMeta(success, data, error, cached) ==
    [success |-> success, data |-> data, error |-> error, metadata |-> [cached |-> cached]]

toAPIResponse(error) == Envelope(FALSE, Null, toErrorInfo(error))

HttpResponse(op, status, body, headers) ==
    [op |-> op, status |-> status, body |-> body, headers |-> headers]

NoResp == HttpResponse("none", 0, Null, EmptyMap)

\* toNextResponse(error): the response and the record it logs
toNextResponse(op, error) ==
    LET statusCode == getErrorStatusCode(error) IN
    [ resp |-> HttpResponse(op, statusCode, Envelope(FALSE, Null, toErrorInfo(error)), EmptyMap),
      logs |-> IF statusCode >= 500 THEN {LogRec("Server error occurred", {})}
               ELSE IF statusCode >= 400 THEN {LogRec("Client error occurred", {})}
               ELSE {} ]

\* toRateLimitHeaders: the numbers rendered in decimal
toRateLimitHeaders(result) ==
    LET base == [h \in {"X-RateLimit-Limit", "X-RateLimit-Remaining", "X-RateLimit-Reset"} |->
                    CASE h = "X-RateLimit-Limit" -> ToString(result.limit)
                      [] h = "X-RateLimit-Remaining" -> ToString(result.remaining)
                      [] h = "X-RateLimit-Reset" -> ToString(result.reset)]
    IN IF result.retryAfter # Undefined
       THEN Put(base, "Retry-After", ToString(result.retryAfter))
       ELSE base

toHeadersRecord(result) == toRateLimitHeaders(result)

\* getIdentifierFromRequest: forwarded is the x-forwarded-for header split at
\* its commas and trimmed, "" an absent header
getIdentifierFromRequest(request) ==
    IF request.forwarded # <<>> THEN Head(request.forwarded)
    ELSE IF request.realIp # "" THEN request.realIp
    ELSE IF request.cfIp # "" THEN request.cfIp
    ELSE "127.0.0.1"

----------------------------------------------------------------------------
(* ApiKeyManager.  Instants are ms since process start; the default expiry,  *)
(* 2099-12-31, lies beyond every instant of the model.                       *)

PrimarySecret == "primaryKey1234567890ABCDEF"

AddressSecret == "addressKey1234567890ABCDEF"

Secrets == {PrimarySecret, AddressSecret}

\* logger.maskApiKey on the strings of the model: the first four characters,
\* then one asterisk for every other character
maskApiKey(key) ==
    CASE key = "primaryKey1234567890ABCDEF" -> "prim**********************"
      [] key = "addressKey1234567890ABCDEF" -> "addr**********************"
      [] OTHER -> "****"

Year2099 == 2147483647

DayMs == 86400000

\* loadKeys / loadServiceKeys: env is [expiry, address], the parsed
\* API_KEY_EXPIRY (Undefined when unset) and whether the address key is set
loadKeys(env) ==
    LET primary == [ key |-> PrimarySecret,
                     expiryDate |-> IF env.expiry = Undefined THEN Year2099 ELSE env.expiry,
                     status |-> "active", lastUsed |-> Undefined ]
        address == [ key |-> AddressSecret, expiryDate |-> Year2099,
                     status |-> "active", lastUsed |-> Undefined ]
    IN IF env.address
       THEN [p \in {"primary", "address"} |-> IF p = "primary" THEN primary ELSE address]
       ELSE [p \in {"primary"} |-> primary]

\* new Date() > expiryDate
isExpired(expiryDate, t) == t > expiryDate

getDaysRemaining(expiryDate, t) ==
    IF expiryDate = Year2099 THEN 26000 ELSE CeilDiv(expiryDate - t, DayMs)

\* an isExpiringSoon that counts the day of the expiry itself
MutIsExpiringSoonToday(expiryDate, t) ==
    getDaysRemaining(expiryDate, t) >= 0 /\ getDaysRemaining(expiryDate, t) <= 30

isExpiringSoon(expiryDate, t) ==
    getDaysRemaining(expiryDate, t) > 0 /\ getDaysRemaining(expiryDate, t) <= 30

\* getKey(provider): the registry after it, the key returned or the error thrown
getKey(registry, provider, t) ==
    IF provider \notin DOMAIN registry
    THEN IF "primary" \in DOMAIN registry
         THEN [ keys |-> registry, ok |-> TRUE, key |-> registry["primary"].key,
                error |-> Null, logs |-> {} ]
         ELSE [ keys |-> registry, ok |-> FALSE, key |-> "", error |-> PlainError("Error"),
                logs |-> {} ]
    ELSE LET keyInfo == registry[provider] IN
         IF keyInfo.status # "active"
         THEN [ keys |-> registry, ok |-> FALSE, key |-> "", error |-> PlainError("Error"),
                logs |-> {} ]
         ELSE IF isExpired(keyInfo.expiryDate, t)
         THEN [ keys |-> registry, ok |-> FALSE, key |-> "", error |-> PlainError("Error"),
                logs |-> {} ]
         ELSE [ keys |-> [registry EXCEPT ![provider].lastUsed = t],
                ok |-> TRUE, key |-> keyInfo.key, error |-> Null,
                logs |-> IF isExpiringSoon(keyInfo.expiryDate, t)
                         THEN {LogRec("API key is expiring soon", {})}
                         ELSE {} ]

NoKeyResult == [op |-> "none", provider |-> "", ok |-> FALSE, key |-> "", error |-> Null]

----------------------------------------------------------------------------
(* PublicDataClient over axios and axios-retry.  One attempt is one run of  *)
(* the axios instance: the client's request interceptor, then the send.     *)
(* axios-retry is registered first, so its error handler sees a failed      *)
(* attempt before the client's and re-runs the instance after the delay;    *)
(* the client's response handlers of all attempts run when the last settles.*)

maxRetries == 3

retryDelayMs == 1000

timeoutMs == 30000

\* what the upstream can answer to one send
Outcomes == {"ok", "okNull", "e400", "e429", "e500", "network", "timeout"}

\* error.response?.status
StatusOf(outcome) ==
    CASE outcome \in {"ok", "okNull"} -> 200
      [] outcome = "e400" -> 400
      [] outcome = "e429" -> 429
      [] outcome = "e500" -> 500
      [] OTHER -> Undefined

\* a retry condition that repeats after every error response
MutRetryCondition(outcome) ==
    \/ outcome = "network"
    \/ StatusOf(outcome) >= 400

\* retryCondition(error): isNetworkOrIdempotentRequestError (no response and
\* not ECONNABORTED, or a 5xx), or status 429, or status >= 500
retryCondition(outcome) ==
    \/ outcome = "network"
    \/ StatusOf(outcome) = 429
    \/ StatusOf(outcome) >= 500

retryDelay(retryCount) == retryCount * retryDelayMs

RateLimitError == AppError("RATE_LIMIT_EXCEEDED", 429, TRUE)

ExternalAPIError == AppError("EXTERNAL_API_ERROR", 502, TRUE)

\* handleAxiosError(error) for an axios error: the error thrown and the branch
\* (message) that classifies it
handleAxiosError(outcome) ==
    LET status == StatusOf(outcome) IN
    [ error |-> ExternalAPIError,
      class |-> IF status = 429 THEN "Rate limit exceeded from external API"
                ELSE IF status >= 500 THEN "External API server error"
                ELSE IF status >= 400 THEN "External API client error"
                ELSE IF outcome = "network" THEN "Cannot connect to external API"
                ELSE "External API request timeout" ]

\* response.data of a 200 answer: results.juso and results.common.errorCode
Payload == [items |-> "a", errorCode |-> "0"]

\* normalizeResponse(response): the envelope of an upstream answer, with the
\* cached flag of its metadata (the timestamp is left out)
normalizeResponse(data) ==
    [success |-> TRUE, data |-> data, error |-> Null, metadata |-> [cached |-> FALSE]]

\* the order Array.prototype.sort() gives the parameter names in use (UTF-16
\* code units)
NameOrder ==
    <<"a", "b", "confmKey", "countPerPage", "currentPage", "keyword", "resultType">>

RECURSIVE sortedFrom(_, _)
\* Object.keys(params).sort().map(key => `${key}=${params[key]}`), from the
\* name of rank r on; params is the sequence of the <<name, value>> pairs of
\* the object in insertion order, each value as the template renders it
sortedFrom(params, r) ==
    IF r > Len(NameOrder) THEN <<>>
    ELSE LET here == {i \in DOMAIN params : params[i][1] = NameOrder[r]}
         IN (IF here = {} THEN <<>>
             ELSE LET i == CHOOSE i \in here : TRUE
                  IN <<params[i][1] \o "=" \o params[i][2]>>)
            \o sortedFrom(params, r + 1)

RECURSIVE join(_, _)
\* Array.prototype.join(separator) of a non-empty array of strings
join(strings, separator) ==
    IF Len(strings) = 1 THEN strings[1]
    ELSE strings[1] \o separator \o join(Tail(strings), separator)

generateCacheKey(endpoint, params) ==
    IF params = <<>> THEN endpoint
    ELSE endpoint \o "?" \o join(sortedFrom(params, 1), "&")

NewClient ==
    [ totalRequests |-> 0, successfulRequests |-> 0, failedRequests |-> 0,
      cachedRequests |-> 0, rateLimitedRequests |-> 0 ]

\* PublicDataClient.getStats()
clientGetStats(stats) ==
    [ totalRequests       |-> stats.totalRequests,
      successfulRequests  |-> stats.successfulRequests,
      failedRequests      |-> stats.failedRequests,
      cachedRequests      |-> stats.cachedRequests,
      rateLimitedRequests |-> stats.rateLimitedRequests,
      cacheHitRate        |-> RatePercent(stats.cachedRequests, stats.totalRequests),
      successRate         |-> RatePercent(stats.successfulRequests, stats.totalRequests) ]

\* PublicDataClient.resetStats()
clientResetStats(stats) ==
    [ totalRequests |-> 0, successfulRequests |-> 0, failedRequests |-> 0,
      cachedRequests |-> 0, rateLimitedRequests |-> 0 ]

CallIds == {1, 2}

NoCall ==
    [ phase |-> "idle", op |-> "none", type |-> "none", key |-> "none",
      attempts |-> 0, sends |-> 0, lastOutcome |-> "none", retriedAfter |-> {},
      delays |-> <<>>, sentAt |-> 0, timeout |-> timeoutMs, dueAt |-> 0,
      wrote |-> FALSE, threw |-> FALSE, response |-> Null, error |-> Null,
      class |-> "none", admit |-> Null, request |-> Null ]

\* an interceptor that checks the limit but sends whatever the decision
MutInterceptorNoGate(registry, limiter, t) ==
    LET k == getKey(registry, "primary", t) IN
    IF ~k.ok
    THEN [ ok |-> FALSE, keys |-> k.keys, limiter |-> limiter, refusal |-> "key",
           error |-> k.error, logs |-> k.logs ]
    ELSE LET r == checkLimit(limiter, k.key, "authenticated", t) IN
         [ ok |-> TRUE, keys |-> k.keys, limiter |-> r.limiter, refusal |-> "none",
           error |-> Null,
           logs |-> k.logs \cup r.logs \cup {LogRec("API request", {maskApiKey(k.key)})} ]

\* the request interceptor at instant t: the key, the rate-limit gate, the log
requestInterceptor(registry, limiter, t) ==
    LET k == getKey(registry, "primary", t) IN
    IF ~k.ok
    THEN [ ok |-> FALSE, keys |-> k.keys, limiter |-> limiter, refusal |-> "key",
           error |-> k.error, logs |-> k.logs ]
    ELSE LET identifier == k.key
             r == checkLimit(limiter, identifier, "authenticated", t)
         IN IF ~r.result.allowed
            THEN [ ok |-> FALSE, keys |-> k.keys, limiter |-> r.limiter, refusal |-> "gate",
                   error |-> RateLimitError,
                   logs |-> k.logs \cup r.logs \cup {LogRec("Rate limit exceeded", {identifier})} ]
            ELSE [ ok |-> TRUE, keys |-> k.keys, limiter |-> r.limiter, refusal |-> "none",
                   error |-> Null,
                   logs |-> k.logs \cup r.logs \cup {LogRec("API request", {maskApiKey(k.key)})} ]

\* a getCached that also stores the envelope of a failure
MutGetCachedStore(c, call, t) ==
    LET value == IF call.threw THEN toAPIResponse(call.error) ELSE call.response
        r == cacheSet(c, call.type, call.key, value, Undefined, t)
    IN IF call.op = "getCached"
       THEN [cache |-> r.cache, logs |-> r.logs, wrote |-> TRUE]
       ELSE [cache |-> c, logs |-> {}, wrote |-> FALSE]

\* getCached after its get settled: a throw propagates, a successful envelope
\* is stored
getCachedStore(c, call, t) ==
    IF call.op = "getCached" /\ ~call.threw /\ call.response.success
    THEN LET r == cacheSet(c, call.type, call.key, call.response, Undefined, t) IN
         [cache |-> r.cache, logs |-> r.logs, wrote |-> TRUE]
    ELSE [cache |-> c, logs |-> {}, wrote |-> FALSE]

\* the state the client works on, and the log records written so far in a step
World ==
    [ keys |-> keys, rl |-> rl, cache |-> cache, client |-> client,
      inflight |-> inflight, logs |-> {} ]

\* the call fails for good: the client's error handlers of all its attempts
\* run, get passes the error to handleAxiosError, getCached lets it through
failCall(w, id, lastOutcome, error, class, t) ==
    LET call == [w.inflight[id] EXCEPT !.phase = "done", !.lastOutcome = lastOutcome,
                                       !.threw = TRUE, !.error = error, !.class = class]
        st == getCachedStore(w.cache, call, t)
    IN [w EXCEPT !.client.failedRequests = @ + call.attempts,
                 !.cache = st.cache,
                 !.inflight[id] = [call EXCEPT !.wrote = st.wrote],
                 !.logs = @ \cup st.logs \cup
                          {LogRec("API request failed", {})} \cup
                          IF lastOutcome \in Outcomes THEN {LogRec("Axios Error", {})} ELSE {}]

\* one run of the axios instance for call id at instant t
sendAttempt(w, id, t) ==
    LET ri == requestInterceptor(w.keys, w.rl, t)
        w1 == [w EXCEPT !.keys = ri.keys, !.rl = ri.limiter, !.logs = @ \cup ri.logs,
                        !.inflight[id].attempts = @ + 1,
                        !.client.rateLimitedRequests =
                            IF ri.refusal = "gate" THEN @ + 1 ELSE @]
    IN IF ri.ok
       THEN [w1 EXCEPT !.inflight[id].phase = "sent",
                       !.inflight[id].sends = @ + 1,
                       !.inflight[id].sentAt = t]
       ELSE failCall(w1, id, ri.refusal, ri.error, ri.refusal, t)

\* a getCached that returns the stored envelope as it was stored
MutStartCallNoFlag(w, id, op, req, t) ==
    LET key == generateCacheKey(req.endpoint, req.params)
        call == [NoCall EXCEPT !.op = op, !.type = req.type, !.key = key,
                               !.request = req]
        counted == [w EXCEPT !.inflight[id] = call, !.client.totalRequests = @ + 1]
    IN IF op \in {"get", "post"} THEN sendAttempt(counted, id, t)
       ELSE LET cached == cacheGet(w.cache, req.type, key, t) IN
            IF cached.result.hit /\ cached.result.value # Null
            THEN [w EXCEPT !.cache = cached.cache,
                           !.client.cachedRequests = @ + 1,
                           !.logs = @ \cup cached.logs \cup {LogRec("Cache hit", {key})},
                           !.inflight[id] = [call EXCEPT !.phase = "done",
                                                        !.response = cached.result.value]]
            ELSE sendAttempt([counted EXCEPT
                                 !.cache = cached.cache,
                                 !.logs = @ \cup cached.logs \cup {LogRec("Cache miss", {key})}],
                             id, t)

\* get(endpoint, config) / post(endpoint, data, config) /
\* getCached(cacheType, endpoint, config) up to the send
startCall(w, id, op, req, t) ==
    LET key == generateCacheKey(req.endpoint, req.params)
        call == [NoCall EXCEPT !.op = op, !.type = req.type, !.key = key,
                               !.request = req]
        counted == [w EXCEPT !.inflight[id] = call, !.client.totalRequests = @ + 1]
    IN IF op \in {"get", "post"} THEN sendAttempt(counted, id, t)
       ELSE LET cached == cacheGet(w.cache, req.type, key, t) IN
            IF cached.result.hit /\ cached.result.value # Null
            THEN [w EXCEPT !.cache = cached.cache,
                           !.client.cachedRequests = @ + 1,
                           !.logs = @ \cup cached.logs \cup {LogRec("Cache hit", {key})},
                           !.inflight[id] = [call EXCEPT !.phase = "done",
                                                        !.response =
                                                            [cached.result.value EXCEPT
                                                                !.metadata.cached = TRUE]]]
            ELSE sendAttempt([counted EXCEPT
                                 !.cache = cached.cache,
                                 !.logs = @ \cup cached.logs \cup {LogRec("Cache miss", {key})}],
                             id, t)

\* the answer to the send of call id arrives at instant t
receive(w, id, outcome, t) ==
    LET call == w.inflight[id] IN
    IF outcome \in {"ok", "okNull"}
    THEN [w EXCEPT !.client.successfulRequests = @ + call.attempts,
                   !.logs = @ \cup {LogRec("API response", {})},
                   !.inflight[id] =
                       [call EXCEPT !.phase = IF call.op = "getCached" THEN "resolved" ELSE "done",
                                    !.lastOutcome = outcome,
                                    !.response = normalizeResponse(
                                        IF outcome = "ok" THEN Payload ELSE Null)]]
    ELSE LET retryCount == call.attempts
             delay == retryDelay(retryCount)
             left == call.timeout - (t - call.sentAt) - delay
             h == handleAxiosError(outcome)
         IN IF call.attempts - 1 < maxRetries /\ retryCondition(outcome) /\ left > 0
            THEN [w EXCEPT !.logs = @ \cup {LogRec("Retrying API request", {})},
                           !.inflight[id] =
                               [call EXCEPT !.phase = "waiting", !.lastOutcome = outcome,
                                            !.retriedAfter = @ \cup {outcome},
                                            !.delays = Append(@, delay),
                                            !.timeout = left, !.dueAt = t + delay]]
            ELSE failCall(w, id, outcome, h.error, h.class, t)

\* getCached resumes after its get returned an envelope
settle(w, id, t) ==
    LET call == w.inflight[id]
        st == getCachedStore(w.cache, call, t)
    IN [w EXCEPT !.cache = st.cache, !.logs = @ \cup st.logs,
                 !.inflight[id] = [call EXCEPT !.phase = "done", !.wrote = st.wrote]]

----------------------------------------------------------------------------
(* GET /api/address.  The handler awaits getCached: it runs up to the call,  *)
(* and resumes when the call has returned or thrown.                        *)

AddressEndpoint == "/addrlink/addrLinkApi.do"

\* the params of the upstream request
AddressParams(query) ==
    << <<"confmKey", "devU01TX0FVVEgyMDI1MTEyNjE0MzI1MDExNTI5MzE=">>,
       <<"currentPage", ToString(query.pageNo)>>,
       <<"countPerPage", ToString(query.numOfRows)>>,
       <<"keyword", query.keyword>>,
       <<"resultType", "json">> >>

\* AddressSearchSchema.safeParse; keywordLen is the length of query.keyword
AddressSearchValid(query) ==
    /\ query.keywordLen >= 2
    /\ query.pageNo >= 1
    /\ query.numOfRows >= 1 /\ query.numOfRows <= 100

\* the X-RateLimit-* headers the handler writes by hand
AddressLimitHeaders(result) ==
    [h \in {"X-RateLimit-Limit", "X-RateLimit-Remaining", "X-RateLimit-Reset"} |->
        CASE h = "X-RateLimit-Limit" -> ToString(result.limit)
          [] h = "X-RateLimit-Remaining" -> ToString(result.remaining)
          [] h = "X-RateLimit-Reset" -> ToString(result.reset)]

\* the handler between its checkLimit, whose outcome is admit, and its await:
\* the 429, validation and the 400, the getCached call
addressAdmitted(w, id, identifier, query, admit, t) ==
    IF ~admit.result.allowed
    THEN [ world |-> [w EXCEPT !.rl = admit.limiter,
                               !.logs = @ \cup admit.logs \cup
                                   {LogRec("Rate limit exceeded for address search",
                                           {identifier})}],
           resp |-> HttpResponse("address", 429,
                        Envelope(FALSE, Null,
                                 [code |-> "RATE_LIMIT_EXCEEDED", retryable |-> TRUE]),
                        Put(AddressLimitHeaders(admit.result), "Retry-After",
                            ToString(IF admit.result.retryAfter \in {Undefined, 0}
                                     THEN 60 ELSE admit.result.retryAfter))) ]
    ELSE IF ~AddressSearchValid(query)
    THEN [ world |-> [w EXCEPT !.rl = admit.limiter,
                               !.logs = @ \cup admit.logs \cup
                                   {LogRec("Address search validation failed", {})}],
           resp |-> HttpResponse("address", 400,
                        Envelope(FALSE, Null, [code |-> "VALIDATION_ERROR"]), EmptyMap) ]
    ELSE [ world |-> [startCall([w EXCEPT !.rl = admit.limiter,
                                          !.logs = @ \cup admit.logs \cup
                                              {LogRec("Address search request", {})}],
                                id, "getCached",
                                [type |-> "address", endpoint |-> AddressEndpoint,
                                 params |-> AddressParams(query)], t)
                         EXCEPT !.inflight[id].admit = admit.result],
           resp |-> NoResp ]

\* the handler up to its await; resp is NoResp while the call is awaited
addressGET(w, id, request, t) ==
    addressAdmitted(w, id, getIdentifierFromRequest(request), request.query,
                    checkLimit(w.rl, getIdentifierFromRequest(request), "anonymous", t), t)

\* the handler after its await: the catch block, the checks of the answer,
\* the 200 response
addressResume(call) ==
    LET failed == toNextResponse("address", call.error) IN
    IF call.threw
    THEN [ resp |-> failed.resp,
           logs |-> {LogRec("Address search failed", {})} \cup failed.logs ]
    ELSE IF ~call.response.success \/ call.response.data = Null
    THEN [ resp |-> HttpResponse("address", 502,
                        Envelope(FALSE, Null,
                                 [code |-> "EXTERNAL_API_ERROR", retryable |-> TRUE]),
                        EmptyMap),
           logs |-> {LogRec("Address API returned no data", {})} ]
    ELSE IF call.response.data.errorCode # "0"
    THEN [ resp |-> HttpResponse("address", 502,
                        Envelope(FALSE, Null, [code |-> "EXTERNAL_API_ERROR"]), EmptyMap),
           logs |-> {LogRec("Address API error", {})} ]
    ELSE [ resp |-> HttpResponse("address", 200,
                        Envelope(TRUE, [addresses |-> call.response.data.items], Null),
                        Put(AddressLimitHeaders(call.admit), "Cache-Control",
                            IF call.response.metadata.cached
                            THEN "public, max-age=86400" ELSE "no-cache")),
           logs |-> {LogRec("Address search completed", {})} ]

----------------------------------------------------------------------------
(* The coordinate engine, as far as the handlers need it.  Numbers are       *)
(* integers; NaN and Infinity are two reserved values.  proj4 is known at the *)
(* projection origins only: (200000, 600000) of a belt is (its central       *)
(* meridian, 38) in WGS84.                                                   *)

NaN == 2147483646

Infinity == 2147483647

isFinite(n) == n # NaN /\ n # Infinity /\ n # -Infinity

\* n < lo || n > hi, false of NaN
OutOfRange(n, lo, hi) == n # NaN /\ (n < lo \/ n > hi)

CoordinateSystems ==
    {"WGS84", "GRS80_CENTRAL", "GRS80_WEST", "GRS80_EAST", "BESSEL_CENTRAL", "KATEC", "UTM_K"}

SystemUnit(system) == IF system = "WGS84" THEN "degree" ELSE "meter"

\* the systems whose origin the model knows (no datum shift, whole degrees):
\* central meridian, and the false easting and northing of the origin
BeltMeridian(system) ==
    CASE system = "GRS80_CENTRAL" -> 127
      [] system = "GRS80_WEST" -> 125
      [] system = "GRS80_EAST" -> 129
      [] system = "KATEC" -> 127

BeltOrigin(system) ==
    IF system = "KATEC" THEN <<200000, 500000>> ELSE <<200000, 600000>>

KnownBelts == {"GRS80_CENTRAL", "GRS80_WEST", "GRS80_EAST", "KATEC"}

\* COORDINATE_SYSTEM_BOUNDS, in the order of the table
BoundsOrder ==
    <<"WGS84", "GRS80_CENTRAL", "GRS80_WEST", "GRS80_EAST", "BESSEL_CENTRAL", "KATEC", "UTM_K">>

BoundsOf(system) ==
    CASE system = "WGS84" -> [minX |-> 124, maxX |-> 132, minY |-> 33, maxY |-> 43]
      [] system \in {"GRS80_CENTRAL", "GRS80_WEST", "GRS80_EAST"} ->
            [minX |-> 100000, maxX |-> 300000, minY |-> 400000, maxY |-> 800000]
      [] system \in {"BESSEL_CENTRAL", "KATEC"} ->
            [minX |-> 100000, maxX |-> 300000, minY |-> 300000, maxY |-> 700000]
      [] system = "UTM_K" ->
            [minX |-> 900000, maxX |-> 1100000, minY |-> 1800000, maxY |-> 2200000]

\* n >= lo && n <= hi, false of NaN
InRange(n, lo, hi) == n # NaN /\ n >= lo /\ n <= hi

IsGeoPoint(point) == "longitude" \in DOMAIN point

normalizePoint(point) ==
    IF IsGeoPoint(point) THEN [x |-> point.longitude, y |-> point.latitude] ELSE point

pointToArray(point) ==
    IF IsGeoPoint(point) THEN <<point.longitude, point.latitude>> ELSE <<point.x, point.y>>

arrayToPoint(array, unit) ==
    IF unit = "degree" THEN [longitude |-> array[1], latitude |-> array[2]]
    ELSE [x |-> array[1], y |-> array[2]]

\* validatePoint: the errors it collects.  A field the point lacks reads as
\* undefined: every comparison with it is false and isFinite of it is false.
validationErrors(point, system) ==
    IF SystemUnit(system) = "degree"
    THEN IF ~IsGeoPoint(point) THEN {}
         ELSE (IF OutOfRange(point.longitude, -180, 180)
               THEN {"Longitude out of range (-180 to 180)"} ELSE {})
              \cup (IF OutOfRange(point.latitude, -90, 90)
                    THEN {"Latitude out of range (-90 to 90)"} ELSE {})
    ELSE IF IsGeoPoint(point) \/ ~isFinite(point.x) \/ ~isFinite(point.y)
         THEN {"Invalid coordinate values (not finite)"} ELSE {}

\* validatePoint: the warnings it collects, strict being STRICT_KOREA_BOUNDS
validationWarnings(point, system, strict) ==
    LET bounds == BoundsOf(system) IN
    IF SystemUnit(system) = "degree"
    THEN IF /\ strict # "false"
            /\ IsGeoPoint(point)
            /\ \/ OutOfRange(point.longitude, 124, 132)
               \/ OutOfRange(point.latitude, 33, 43)
         THEN {"Coordinate outside Korea bounds"} ELSE {}
    ELSE IF IsGeoPoint(point) THEN {}
         ELSE (IF OutOfRange(point.x, bounds.minX, bounds.maxX)
               THEN {"X coordinate outside expected range"} ELSE {})
              \cup (IF OutOfRange(point.y, bounds.minY, bounds.maxY)
                    THEN {"Y coordinate outside expected range"} ELSE {})

\* validatePoint: TRUE when it returns, FALSE when it throws
validatePoint(point, system) == validationErrors(point, system) = {}

\* detectSystem returns null
NoSystem == "null"

\* detectSystem(point): the code, or null
detectSystem(point) ==
    LET covers(i) == /\ InRange(point.x, BoundsOf(BoundsOrder[i]).minX,
                                 BoundsOf(BoundsOrder[i]).maxX)
                     /\ InRange(point.y, BoundsOf(BoundsOrder[i]).minY,
                                 BoundsOf(BoundsOrder[i]).maxY)
        hits == {i \in 1..Len(BoundsOrder) : covers(i)}
    IN IF IsGeoPoint(point)
       THEN IF InRange(point.longitude, -180, 180) /\ InRange(point.latitude, -90, 90)
            THEN "WGS84" ELSE NoSystem
       ELSE IF hits = {} THEN NoSystem
       ELSE BoundsOrder[CHOOSE i \in hits : \A j \in hits : i <= j]

\* the conversions the model knows: between WGS84 and the origin of a belt
KnownProj(from, to, array) ==
    \/ from \in KnownBelts /\ to = "WGS84" /\ array = BeltOrigin(from)
    \/ from = "WGS84" /\ to \in KnownBelts /\ array = <<BeltMeridian(to), 38>>

\* proj4(from, to, array) at the origin of a belt
Proj4(from, to, array) ==
    IF from \in KnownBelts /\ to = "WGS84" /\ array = BeltOrigin(from)
    THEN <<BeltMeridian(from), 38>>
    ELSE IF from = "WGS84" /\ to \in KnownBelts /\ array = <<BeltMeridian(to), 38>>
    THEN BeltOrigin(to)
    ELSE <<NaN, NaN>>

\* a transform whose same-system shortcut returns the point as it was given
MutTransformSameRaw(point, from, to) ==
    IF from \notin CoordinateSystems \/ to \notin CoordinateSystems
    THEN [ok |-> FALSE, error |-> EngineCoordinateError]
    ELSE IF from = to THEN [ok |-> TRUE, point |-> point]
    ELSE IF ~validatePoint(point, from) THEN [ok |-> FALSE, error |-> EngineCoordinateError]
    ELSE LET result == arrayToPoint(Proj4(from, to, pointToArray(point)), SystemUnit(to)) IN
         IF ~validatePoint(result, to) THEN [ok |-> FALSE, error |-> EngineCoordinateError]
         ELSE [ok |-> TRUE, point |-> normalizePoint(result)]

\* transform(point, from, to): the point returned, or the error thrown
transform(point, from, to) ==
    IF from \notin CoordinateSystems \/ to \notin CoordinateSystems
    THEN [ok |-> FALSE, error |-> EngineCoordinateError]
    ELSE IF from = to THEN [ok |-> TRUE, point |-> normalizePoint(point)]
    ELSE IF ~validatePoint(point, from) THEN [ok |-> FALSE, error |-> EngineCoordinateError]
    ELSE LET result == arrayToPoint(Proj4(from, to, pointToArray(point)), SystemUnit(to)) IN
         IF ~validatePoint(result, to) THEN [ok |-> FALSE, error |-> EngineCoordinateError]
         ELSE [ok |-> TRUE, point |-> normalizePoint(result)]

\* reading .epsg of an undefined entry of COORDINATE_SYSTEMS
EngineTypeError == PlainError("TypeError")

\* transformBatch(points, from, to): the points returned, or the error thrown;
\* no point is validated, and the catch block throws the error on as it is
transformBatch(points, from, to) ==
    IF points = <<>> THEN [ok |-> TRUE, points |-> <<>>]
    ELSE IF from \notin CoordinateSystems \/ to \notin CoordinateSystems
    THEN [ok |-> FALSE, error |-> EngineTypeError]
    ELSE [ok |-> TRUE,
          points |-> [i \in DOMAIN points |->
                          normalizePoint(arrayToPoint(
                              Proj4(from, to, pointToArray(points[i])), SystemUnit(to)))]]

\* no call of the engine yet
NoEngineCall == [op |-> "none"]

----------------------------------------------------------------------------
(* GET /api/coordinate/transform *)

\* SingleTransformSchema.safeParse of the raw parameters: from and to are
\* the query strings ("" when absent), x and y what parseFloat made of theirs
SingleTransformValid(query) ==
    /\ query.from \in CoordinateSystems
    /\ (IF query.to = "" THEN "WGS84" ELSE query.to) \in CoordinateSystems
    /\ query.x # NaN
    /\ query.y # NaN

\* a handler that looks the cache up before it validates the parameters
MutGetLookupFirst(limiter, c, request, t) ==
    LET identifier == getIdentifierFromRequest(request)
        admit == checkLimit(limiter, identifier, "anonymous", t)
        query == request.query
        to == IF query.to = "" THEN "WGS84" ELSE query.to
        point == [x |-> query.x, y |-> query.y]
        cached == cacheGet(c, "coordinate", query.cacheKey, t)
        moved == transform(point, query.from, to)
        call == [op |-> "transform", point |-> point, from |-> query.from, to |-> to,
                 moved |-> moved]
        stored == cacheSet(cached.cache, "coordinate", query.cacheKey, moved.point,
                           Undefined, t)
        failed == toNextResponse("GET", moved.error)
    IN
    IF ~admit.result.allowed
    THEN [ limiter |-> admit.limiter, admit |-> admit.result, cache |-> c, sets |-> {},
           engine |-> NoEngineCall,
           resp |-> HttpResponse("GET", 429,
                        Envelope(FALSE, Null,
                                 [code |-> "RATE_LIMIT_EXCEEDED", retryable |-> TRUE]),
                        toHeadersRecord(admit.result)),
           logs |-> admit.logs
                    \cup {LogRec("Rate limit exceeded for coordinate transform",
                                 {identifier})} ]
    ELSE IF ~SingleTransformValid(query)
    THEN [ limiter |-> admit.limiter, admit |-> admit.result, cache |-> cached.cache, sets |-> {},
           engine |-> NoEngineCall,
           resp |-> HttpResponse("GET", 400,
                        Envelope(FALSE, Null, [code |-> "VALIDATION_ERROR"]), EmptyMap),
           logs |-> admit.logs \cup {LogRec("Coordinate transform validation failed", {})} ]
    ELSE IF cached.result.hit /\ cached.result.value # Null
    THEN [ limiter |-> admit.limiter, admit |-> admit.result, cache |-> cached.cache, sets |-> {},
           engine |-> NoEngineCall,
           resp |-> HttpResponse("GET", 200,
                        EnvelopeMeta(TRUE,
                                 [original |-> point, transformed |-> cached.result.value,
                                  from |-> query.from, to |-> to],
                                 Null, TRUE),
                        Put(toHeadersRecord(admit.result), "Cache-Control",
                            "public, max-age=604800")),
           logs |-> admit.logs \cup cached.logs
                    \cup {LogRec("Coordinate transform (cached)", {})} ]
    ELSE IF ~moved.ok
    THEN [ limiter |-> admit.limiter, admit |-> admit.result, cache |-> cached.cache, sets |-> {},
           engine |-> call,
           resp |-> failed.resp,
           logs |-> admit.logs \cup cached.logs
                    \cup {LogRec("Coordinate transform request", {}),
                          LogRec("Coordinate transformation failed", {}),
                          LogRec("Coordinate transform failed", {})}
                    \cup failed.logs ]
    ELSE [ limiter |-> admit.limiter, admit |-> admit.result, cache |-> stored.cache,
           sets |-> {[key |-> buildKey("coordinate", query.cacheKey),
                      ttl |-> getTTL("coordinate", Undefined), value |-> moved.point]},
           engine |-> call,
           resp |-> HttpResponse("GET", 200,
                        EnvelopeMeta(TRUE,
                                 [original |-> point, transformed |-> moved.point,
                                  from |-> query.from, to |-> to],
                                 Null, FALSE),
                        Put(toHeadersRecord(admit.result), "Cache-Control",
                            "public, max-age=604800")),
           logs |-> admit.logs \cup cached.logs \cup stored.logs
                    \cup {LogRec("Coordinate transform request", {}),
                          LogRec("Coordinate transform completed", {})} ]

\* the handler: the limiter and the cache after it, what the limiter answered,
\* the response, the log records and the cache entries it set
coordinateGET(limiter, c, request, t) ==
    LET identifier == getIdentifierFromRequest(request)
        admit == checkLimit(limiter, identifier, "anonymous", t)
        query == request.query
        to == IF query.to = "" THEN "WGS84" ELSE query.to
        point == [x |-> query.x, y |-> query.y]
        cached == cacheGet(c, "coordinate", query.cacheKey, t)
        moved == transform(point, query.from, to)
        call == [op |-> "transform", point |-> point, from |-> query.from, to |-> to,
                 moved |-> moved]
        stored == cacheSet(cached.cache, "coordinate", query.cacheKey, moved.point,
                           Undefined, t)
        failed == toNextResponse("GET", moved.error)
    IN
    IF ~admit.result.allowed
    THEN [ limiter |-> admit.limiter, admit |-> admit.result, cache |-> c, sets |-> {},
           engine |-> NoEngineCall,
           resp |-> HttpResponse("GET", 429,
                        Envelope(FALSE, Null,
                                 [code |-> "RATE_LIMIT_EXCEEDED", retryable |-> TRUE]),
                        toHeadersRecord(admit.result)),
           logs |-> admit.logs
                    \cup {LogRec("Rate limit exceeded for coordinate transform",
                                 {identifier})} ]
    ELSE IF ~SingleTransformValid(query)
    THEN [ limiter |-> admit.limiter, admit |-> admit.result, cache |-> c, sets |-> {},
           engine |-> NoEngineCall,
           resp |-> HttpResponse("GET", 400,
                        Envelope(FALSE, Null, [code |-> "VALIDATION_ERROR"]), EmptyMap),
           logs |-> admit.logs \cup {LogRec("Coordinate transform validation failed", {})} ]
    ELSE IF cached.result.hit /\ cached.result.value # Null
    THEN [ limiter |-> admit.limiter, admit |-> admit.result, cache |-> cached.cache, sets |-> {},
           engine |-> NoEngineCall,
           resp |-> HttpResponse("GET", 200,
                        EnvelopeMeta(TRUE,
                                 [original |-> point, transformed |-> cached.result.value,
                                  from |-> query.from, to |-> to],
                                 Null, TRUE),
                        Put(toHeadersRecord(admit.result), "Cache-Control",
                            "public, max-age=604800")),
           logs |-> admit.logs \cup cached.logs
                    \cup {LogRec("Coordinate transform (cached)", {})} ]
    ELSE IF ~moved.ok
    THEN [ limiter |-> admit.limiter, admit |-> admit.result, cache |-> cached.cache, sets |-> {},
           engine |-> call,
           resp |-> failed.resp,
           logs |-> admit.logs \cup cached.logs
                    \cup {LogRec("Coordinate transform request", {}),
                          LogRec("Coordinate transformation failed", {}),
                          LogRec("Coordinate transform failed", {})}
                    \cup failed.logs ]
    ELSE [ limiter |-> admit.limiter, admit |-> admit.result, cache |-> stored.cache,
           sets |-> {[key |-> buildKey("coordinate", query.cacheKey),
                      ttl |-> getTTL("coordinate", Undefined), value |-> moved.point]},
           engine |-> call,
           resp |-> HttpResponse("GET", 200,
                        EnvelopeMeta(TRUE,
                                 [original |-> point, transformed |-> moved.point,
                                  from |-> query.from, to |-> to],
                                 Null, FALSE),
                        Put(toHeadersRecord(admit.result), "Cache-Control",
                            "public, max-age=604800")),
           logs |-> admit.logs \cup cached.logs \cup stored.logs
                    \cup {LogRec("Coordinate transform request", {}),
                          LogRec("Coordinate transform completed", {})} ]

----------------------------------------------------------------------------
(* The rate limiter on its own: Spec *)

\* the (identifier, tier) pairs that call the limiter
Clients == {<<"ip1", "anonymous">>, <<"ip2", "authenticated">>, <<"ip2", "premium">>}

\* bounds of the exploration
MaxCalls == 3

MaxHours == 3

MaxOffsetMs == 54000

\* allowed calls already made at instant 0 in the drained initial state
Preload == 99

\* clock steps between calls: half an anonymous token, one anonymous token
SmallDeltas == {18000, 36000}

\* the limiter after n allowed checkLimit("ip1", "anonymous") calls at instant 0
DrainedLimiter(n) ==
    [ buckets    |-> Put(EmptyMap, getBucketKey("ip1", "anonymous"),
                         [createBucket("anonymous", 0) EXCEPT
                             !.tokens = @ - n * Scale("anonymous")]),
      stats      |-> [totalRequests |-> n, allowed |-> n, blocked |-> 0, violations |-> 0],
      violations |-> <<>> ]

\* the components as their constructors leave them
IdleLimiter ==
    /\ nextCleanup = CleanupIntervalMs
    /\ rl = NewLimiter
    /\ rlResult = NoResult
    /\ allowedAt = EmptyMap
    /\ deniedAt = EmptyMap

IdleCache ==
    /\ cache = NewCache(DefaultMax, DefaultMaxSize)
    /\ cacheResult = NoCacheResult
    /\ lastSet = EmptyMap

IdleKeys ==
    /\ keys = loadKeys([expiry |-> Undefined, address |-> TRUE])
    /\ keyResult = NoKeyResult

IdleHttp ==
    /\ resp = NoResp
    /\ client = NewClient
    /\ inflight = [id \in CallIds |-> NoCall]

\* a process started for development
IdleEnv ==
    /\ processEnv = [NODE_ENV |-> "development", STRICT_KOREA_BOUNDS |-> ""]
    /\ engine = NoEngineCall

\* the components the limiter does not touch
InitOthers == IdleCache /\ IdleKeys /\ IdleHttp /\ IdleEnv

InitFresh ==
    /\ now = 0
    /\ IdleLimiter
    /\ calls = 0
    /\ log = {}
    /\ InitOthers

\* the state a burst reaches after Preload allowed calls (BurstReachesDrained)
InitDrained ==
    /\ now = 0
    /\ nextCleanup = CleanupIntervalMs
    /\ rl = DrainedLimiter(Preload)
    /\ rlResult = ResultOf("checkLimit", getBucketKey("ip1", "anonymous"),
                           [ allowed |-> TRUE,
                             remaining |-> AnonymousRequests - Preload,
                             reset |-> CeilDiv(Preload * Scale("anonymous"), 1000),
                             limit |-> AnonymousRequests,
                             retryAfter |-> Undefined ])
    /\ allowedAt = Put(EmptyMap, getBucketKey("ip1", "anonymous"), Put(EmptyMap, 0, Preload))
    /\ deniedAt = EmptyMap
    /\ calls = 0
    /\ log = {LogRec("Rate limit check: allowed", {"ip1"})}
    /\ InitOthers

Init == InitFresh \/ InitDrained

\* time passes between two events (explored only shortly after the start)
SmallTick(d) ==
    /\ now + d <= nextCleanup
    /\ now + d <= MaxOffsetMs
    /\ now' = now + d
    /\ UNCHANGED <<nextCleanup, rl, rlResult, allowedAt, deniedAt, calls, log>>
    /\ UNCHANGED nonLimiterVars

\* nothing happens until the housekeeping timer is due
IdleToTimer ==
    /\ now < nextCleanup
    /\ nextCleanup <= MaxHours * CleanupIntervalMs
    /\ now' = nextCleanup
    /\ UNCHANGED <<nextCleanup, rl, rlResult, allowedAt, deniedAt, calls, log>>
    /\ UNCHANGED nonLimiterVars

CheckLimit(identifier, tier) ==
    /\ calls < MaxCalls
    /\ LET r == checkLimit(rl, identifier, tier, now)
           key == getBucketKey(identifier, tier)
       IN /\ rl' = r.limiter
          /\ rlResult' = ResultOf("checkLimit", key, r.result)
          /\ allowedAt' = IF r.result.allowed THEN NoteAllowed(allowedAt, key, now)
                          ELSE allowedAt
          /\ deniedAt' = NoteResult(deniedAt, key, r.result, now)
          /\ log' = log \cup r.logs
    /\ calls' = calls + 1
    /\ UNCHANGED <<now, nextCleanup>>
    /\ UNCHANGED nonLimiterVars

GetStatus(identifier, tier) ==
    /\ calls < MaxCalls
    /\ LET r == getStatus(rl, identifier, tier, now) IN
          /\ rl' = r.limiter
          /\ rlResult' = ResultOf("getStatus", getBucketKey(identifier, tier), r.result)
    /\ calls' = calls + 1
    /\ UNCHANGED <<now, nextCleanup, allowedAt, deniedAt, log>>
    /\ UNCHANGED nonLimiterVars

\* reset(identifier, tier); the observation of that bucket starts afresh
Reset(identifier, tier) ==
    /\ calls < MaxCalls
    /\ rl' = resetBucket(rl, identifier, tier)
    /\ allowedAt' = Drop(allowedAt, {getBucketKey(identifier, tier)})
    /\ log' = log \cup {LogRec("Rate limit reset", {identifier})}
    /\ calls' = calls + 1
    /\ UNCHANGED <<now, nextCleanup, rlResult, deniedAt>>
    /\ UNCHANGED nonLimiterVars

ResetAll ==
    /\ calls < MaxCalls
    /\ rl' = resetAll(rl)
    /\ allowedAt' = EmptyMap
    /\ log' = log \cup {LogRec("All rate limits reset", {})}
    /\ calls' = calls + 1
    /\ UNCHANGED <<now, nextCleanup, rlResult, deniedAt>>
    /\ UNCHANGED nonLimiterVars

\* the setInterval callback of startCleanupInterval
Cleanup ==
    /\ now >= nextCleanup
    /\ rl' = cleanup(rl, now)
    /\ nextCleanup' = nextCleanup + CleanupIntervalMs
    /\ log' = IF DOMAIN rl'.buckets # DOMAIN rl.buckets
              THEN log \cup {LogRec("Rate limit buckets cleaned up", {})}
              ELSE log
    /\ UNCHANGED <<now, rlResult, allowedAt, deniedAt, calls>>
    /\ UNCHANGED nonLimiterVars

Next ==
    \/ \E d \in SmallDeltas : SmallTick(d)
    \/ IdleToTimer
    \/ \E c \in Clients : CheckLimit(c[1], c[2])
    \/ \E c \in Clients : GetStatus(c[1], c[2])
    \/ \E c \in Clients : Reset(c[1], c[2])
    \/ ResetAll
    \/ Cleanup

Spec == Init /\ [][Next]_vars

\* the state a burst of AnonymousRequests allowed calls at instant 0 reaches:
\* the bucket of ip1 is empty
InitExhausted ==
    /\ now = 0
    /\ nextCleanup = CleanupIntervalMs
    /\ rl = DrainedLimiter(AnonymousRequests)
    /\ rlResult = ResultOf("checkLimit", getBucketKey("ip1", "anonymous"),
                           [ allowed |-> TRUE,
                             remaining |-> 0,
                             reset |-> CeilDiv(AnonymousRequests * Scale("anonymous"), 1000),
                             limit |-> AnonymousRequests,
                             retryAfter |-> Undefined ])
    /\ allowedAt = Put(EmptyMap, getBucketKey("ip1", "anonymous"),
                       Put(EmptyMap, 0, AnonymousRequests))
    /\ deniedAt = EmptyMap
    /\ calls = 0
    /\ log = {LogRec("Rate limit check: allowed", {"ip1"})}
    /\ InitOthers

SpecRetry == InitExhausted /\ [][Next]_vars

\* two sources in one tier and one source in two tiers: SpecBuckets
BucketClients ==
    {<<"ip1", "anonymous">>, <<"ip2", "anonymous">>, <<"ip2", "authenticated">>}

NextBuckets ==
    \/ \E d \in SmallDeltas : SmallTick(d)
    \/ \E c \in BucketClients : CheckLimit(c[1], c[2])
    \/ \E c \in BucketClients : GetStatus(c[1], c[2])
    \/ \E c \in BucketClients : Reset(c[1], c[2])

SpecBuckets == Init /\ [][NextBuckets]_vars

----------------------------------------------------------------------------
(* A burst: calls for one bucket at one instant, starting from no bucket: SpecBurst *)

\* the clients that call the limiter directly
BurstClients == {<<"ip2", "authenticated">>, <<"ip2", "premium">>, <<"ip3", "anonymous">>}

\* two requests of the same source, ip1
RequestHeaders ==
    { [forwarded |-> <<"ip1", "proxy1">>, realIp |-> "proxy1", cfIp |-> ""],
      [forwarded |-> <<>>, realIp |-> "ip1", cfIp |-> ""] }

\* ?from=GRS80_CENTRAL&x=200000&y=600000
QueryOrigin ==
    [from |-> "GRS80_CENTRAL", to |-> "", x |-> 200000, y |-> 600000,
     cacheKey |-> "GRS80_CENTRAL-WGS84-200000-600000"]

\* ?x=200000&y=600000 with no from
QueryNoFrom ==
    [from |-> "", to |-> "", x |-> 200000, y |-> 600000, cacheKey |-> "null-WGS84-200000-600000"]

\* ?from=TOKYO&x=200000&y=600000: a system the service does not know
QueryUnknownSystem ==
    [from |-> "TOKYO", to |-> "", x |-> 200000, y |-> 600000,
     cacheKey |-> "TOKYO-WGS84-200000-600000"]

BurstQueries == {QueryOrigin, QueryNoFrom, QueryUnknownSystem}

\* refused calls explored after the bucket ran dry
MaxBlocked == 2

InitBurst ==
    /\ now = 0
    /\ IdleLimiter
    /\ calls = 0
    /\ log = {}
    /\ InitOthers

\* checkLimit(identifier, tier), all calls of the run being for this bucket
BurstCheck(identifier, tier) ==
    /\ DOMAIN rl.buckets \subseteq {getBucketKey(identifier, tier)}
    /\ rl.stats.blocked < MaxBlocked
    /\ LET r == checkLimit(rl, identifier, tier, now)
           key == getBucketKey(identifier, tier)
       IN /\ rl' = r.limiter
          /\ rlResult' = ResultOf("checkLimit", key, r.result)
          /\ allowedAt' = IF r.result.allowed THEN NoteAllowed(allowedAt, key, now)
                          ELSE allowedAt
          /\ deniedAt' = NoteResult(deniedAt, key, r.result, now)
          /\ log' = log \cup r.logs
    /\ calls' = calls + 1
    /\ UNCHANGED <<now, nextCleanup, nonLimiterVars>>

\* GET /api/coordinate/transform from source ip1, all calls of the run being GETs of ip1
BurstGet(headers, query) ==
    /\ DOMAIN rl.buckets \subseteq {getBucketKey("ip1", "anonymous")}
    /\ rl.stats.blocked < MaxBlocked
    /\ LET request == [forwarded |-> headers.forwarded, realIp |-> headers.realIp,
                       cfIp |-> headers.cfIp, query |-> query]
           r == coordinateGET(rl, cache, request, now)
           key == getBucketKey(getIdentifierFromRequest(request), "anonymous")
       IN /\ rl' = r.limiter
          /\ rlResult' = ResultOf("checkLimit", key, r.admit)
          /\ allowedAt' = IF r.admit.allowed THEN NoteAllowed(allowedAt, key, now)
                          ELSE allowedAt
          /\ deniedAt' = NoteResult(deniedAt, key, r.admit, now)
          /\ cache' = r.cache
          /\ engine' = r.engine
          /\ lastSet' = [k \in DOMAIN lastSet \cup {e.key : e \in r.sets} |->
                            IF \E e \in r.sets : e.key = k
                            THEN LET e == CHOOSE e \in r.sets : e.key = k IN
                                 [at |-> now, ttl |-> e.ttl, value |-> e.value]
                            ELSE lastSet[k]]
          /\ resp' = r.resp
          /\ log' = log \cup r.logs
    /\ calls' = calls + 1
    /\ UNCHANGED <<now, nextCleanup, cacheResult, keyVars, clientVars, processEnv>>

NextBurst ==
    \/ \E c \in BurstClients : BurstCheck(c[1], c[2])
    \/ \E h \in RequestHeaders, q \in BurstQueries : BurstGet(h, q)

SpecBurst == InitBurst /\ [][NextBurst]_vars

----------------------------------------------------------------------------
(* The cache on its own: SpecCache *)

\* the (type, key) pairs the callers use
CacheKeys == {<<"realtime", "a">>, <<"realtime", "b">>, <<"coordinate", "a">>}

\* cached values: two of 20 MB, one that is larger than the whole cache
V1 == [data |-> "d1", chars |-> 10000000]

V2 == [data |-> "d2", chars |-> 10000000]

VHuge == [data |-> "d3", chars |-> 30000000]

\* the set calls the callers make: <<type, key, value, options.ttl>>, the ttl
\* absent or one second
CacheSets ==
    { <<"realtime", "a", V1, Undefined>>, <<"realtime", "a", V2, 1>>,
      <<"realtime", "b", V1, Undefined>>, <<"realtime", "b", VHuge, Undefined>>,
      <<"coordinate", "a", V2, Undefined>> }

\* the instants at which callers act: at and just after the one-second
\* expiry, and after the five-minute one
CacheInstants == {0, 1000, 1001, 300001}

\* bounds of the exploration
MaxCacheOps == 4

SmallMax == 2

InitCache ==
    /\ now = 0
    /\ IdleLimiter
    /\ IdleKeys
    /\ IdleHttp
    /\ IdleEnv
    /\ calls = 0
    /\ log = {LogRec("LRU Cache initialized", {})}
    /\ \E max \in {DefaultMax, SmallMax} : cache = NewCache(max, DefaultMaxSize)
    /\ cacheResult = NoCacheResult
    /\ lastSet = EmptyMap

CacheTick(t) ==
    /\ t > now
    /\ now' = t
    /\ UNCHANGED <<nonCacheVars, calls, log, cacheVars>>

CacheSet(type, key, value, customTTL) ==
    /\ calls < MaxCacheOps
    /\ LET r == cacheSet(cache, type, key, value, customTTL, now) IN
          /\ cache' = r.cache
          /\ log' = log \cup r.logs
          /\ cacheResult' = CacheResultOf("set", buildKey(type, key), FALSE, value, cache)
          /\ lastSet' = Put(lastSet, buildKey(type, key),
                            [at |-> now, ttl |-> getTTL(type, customTTL), value |-> value])
    /\ calls' = calls + 1
    /\ UNCHANGED <<now, nonCacheVars>>

CacheGet(type, key) ==
    /\ calls < MaxCacheOps
    /\ LET r == cacheGet(cache, type, key, now) IN
          /\ cache' = r.cache
          /\ log' = log \cup r.logs
          /\ cacheResult' = CacheResultOf("get", buildKey(type, key), r.result.hit,
                                          r.result.value, cache)
    /\ calls' = calls + 1
    /\ UNCHANGED <<now, nonCacheVars, lastSet>>

CacheDelete(type, key) ==
    /\ calls < MaxCacheOps
    /\ LET r == cacheDelete(cache, type, key) IN
          /\ cache' = r.cache
          /\ log' = log \cup r.logs
          /\ cacheResult' = CacheResultOf("delete", buildKey(type, key), r.deleted, Null, cache)
    /\ calls' = calls + 1
    /\ UNCHANGED <<now, nonCacheVars, lastSet>>

CacheDeleteByType(type) ==
    /\ calls < MaxCacheOps
    /\ LET r == cacheDeleteByType(cache, type, now) IN
          /\ cache' = r.cache
          /\ log' = log \cup r.logs
          /\ cacheResult' = CacheResultOf("deleteByType", <<type, "*">>, r.count > 0, Null, cache)
    /\ calls' = calls + 1
    /\ UNCHANGED <<now, nonCacheVars, lastSet>>

CacheClear ==
    /\ calls < MaxCacheOps
    /\ LET r == cacheClear(cache) IN
          /\ cache' = r.cache
          /\ log' = log \cup r.logs
          /\ cacheResult' = CacheResultOf("clear", <<"*", "*">>, FALSE, Null, cache)
    /\ calls' = calls + 1
    /\ UNCHANGED <<now, nonCacheVars, lastSet>>

NextCache ==
    \/ \E t \in CacheInstants : CacheTick(t)
    \/ \E a \in CacheSets : CacheSet(a[1], a[2], a[3], a[4])
    \/ \E k \in CacheKeys : CacheGet(k[1], k[2])
    \/ \E k \in CacheKeys : CacheDelete(k[1], k[2])
    \/ \E type \in {k[1] : k \in CacheKeys} : CacheDeleteByType(type)
    \/ CacheClear

SpecCache == InitCache /\ [][NextCache]_vars

----------------------------------------------------------------------------
(* The key registry on its own: SpecKeys *)

\* the environments the process may start in: API_KEY_EXPIRY unset, a day
\* before the start, five days after it; the address key set or not
KeyEnvs ==
    { [expiry |-> e, address |-> a] : e \in {Undefined, -DayMs, 5 * DayMs}, a \in BOOLEAN }

Providers == {"primary", "address", "unknown-service"}

\* the instants at which callers act: the start, the expiry five days later,
\* the millisecond after it
KeyInstants == {0, 5 * DayMs, 5 * DayMs + 1}

InitKeys ==
    /\ now = 0
    /\ calls = 0
    /\ log = {LogRec("API keys loaded successfully", {})}
    /\ IdleLimiter
    /\ IdleCache
    /\ IdleHttp
    /\ IdleEnv
    /\ \E env \in KeyEnvs : keys = loadKeys(env)
    /\ keyResult = NoKeyResult

KeysTick(t) ==
    /\ t > now
    /\ now' = t
    /\ UNCHANGED <<calls, log, nonKeyVars, keyVars>>

GetKey(provider) ==
    /\ LET r == getKey(keys, provider, now) IN
          /\ keys' = r.keys
          /\ keyResult' = [ op |-> "getKey", provider |-> provider, ok |-> r.ok,
                            key |-> r.key, error |-> r.error ]
          /\ log' = log \cup r.logs
    /\ UNCHANGED <<now, calls, nonKeyVars>>

\* a holder of the record getKeyInfo(provider) returns marks it expired or suspended
MarkStatus(provider, status) ==
    /\ provider \in DOMAIN keys
    /\ keys[provider].status = "active"
    /\ keys' = [keys EXCEPT ![provider].status = status]
    /\ keyResult' = [NoKeyResult EXCEPT !.op = "mark", !.provider = provider]
    /\ UNCHANGED <<now, calls, log, nonKeyVars>>

NextKeys ==
    \/ \E t \in KeyInstants : KeysTick(t)
    \/ \E p \in Providers : GetKey(p)
    \/ \E p \in Providers, st \in {"expired", "suspended"} : MarkStatus(p, st)

SpecKeys == InitKeys /\ [][NextKeys]_vars

----------------------------------------------------------------------------
(* The upstream client: SpecClient.  rlResult, allowedAt, cacheResult,      *)
(* lastSet and keyResult record what direct callers of the components saw;  *)
(* the client's own calls of the components do not pass through them.       *)

ClientRequests ==
    { [type |-> "address", endpoint |-> "/api/address",
       params |-> << <<"keyword", "a">> >>] }

\* attempts (runs of the axios instance) explored in one behaviour
MaxAttempts == 4

\* an upstream answer arrives at once, after LatencyMs, or not before the deadline
LatencyMs == 12000

\* the limiter after all but left allowed checkLimit calls of the client at instant 0
GateLimiter(left) ==
    LET n == AuthenticatedRequests - left IN
    [ buckets    |-> Put(EmptyMap, getBucketKey(PrimarySecret, "authenticated"),
                         [createBucket("authenticated", 0) EXCEPT
                             !.tokens = @ - n * Scale("authenticated")]),
      stats      |-> [totalRequests |-> n, allowed |-> n, blocked |-> 0, violations |-> 0],
      violations |-> <<>> ]

InitClient ==
    /\ now = 0
    /\ calls = 0
    /\ nextCleanup = CleanupIntervalMs
    /\ rlResult = NoResult
    /\ allowedAt = EmptyMap
    /\ deniedAt = EmptyMap
    /\ \/ rl = NewLimiter /\ log = {}
       \/ /\ \E left \in {0, 1} : rl = GateLimiter(left)
          /\ log = {LogRec("Rate limit check: allowed", {PrimarySecret})}
    /\ IdleCache
    /\ \E e \in {Undefined, -DayMs} : keys = loadKeys([expiry |-> e, address |-> FALSE])
    /\ keyResult = NoKeyResult
    /\ IdleHttp
    /\ IdleEnv

\* the state a step produced is assigned
CommitWorld(w) ==
    /\ keys' = w.keys
    /\ rl' = w.rl
    /\ cache' = w.cache
    /\ client' = w.client
    /\ inflight' = w.inflight
    /\ log' = log \cup w.logs
    /\ UNCHANGED <<nextCleanup, rlResult, allowedAt, deniedAt, cacheResult, lastSet, keyResult, processEnv, engine>>

\* a step of the client takes effect
Commit(w) == CommitWorld(w) /\ UNCHANGED resp

\* a caller invokes get or getCached; calls take their ids in order
ClientCall(id, op, req) ==
    /\ inflight[id].phase = "idle"
    /\ \A j \in CallIds : j < id => inflight[j].phase # "idle"
    /\ calls < MaxAttempts
    /\ Commit(startCall(World, id, op, req, now))
    /\ calls' = calls + 1
    /\ UNCHANGED now

\* the upstream answers, or the request times out at its deadline
ClientReceive(id, outcome) ==
    /\ inflight[id].phase = "sent"
    /\ IF outcome = "timeout"
       THEN now = inflight[id].sentAt + inflight[id].timeout
       ELSE /\ now < inflight[id].sentAt + inflight[id].timeout
            /\ now - inflight[id].sentAt \in {0, LatencyMs}
    /\ Commit(receive(World, id, outcome, now))
    /\ UNCHANGED <<now, calls>>

\* the retry timer of axios-retry fires
ClientRetry(id) ==
    /\ inflight[id].phase = "waiting"
    /\ now = inflight[id].dueAt
    /\ calls < MaxAttempts
    /\ Commit(sendAttempt(World, id, now))
    /\ calls' = calls + 1
    /\ UNCHANGED now

\* getCached resumes with the envelope of its get
ClientSettle(id) ==
    /\ inflight[id].phase = "resolved"
    /\ Commit(settle(World, id, now))
    /\ UNCHANGED <<now, calls>>

\* time passes while a call is under way, up to the next deadline or timer
ClientAdvance ==
    LET sent == {i \in CallIds : inflight[i].phase = "sent"}
        pending == {inflight[id].sentAt + inflight[id].timeout : id \in sent}
                   \cup {inflight[id].dueAt :
                       id \in {i \in CallIds : inflight[i].phase = "waiting"}}
    IN /\ pending # {}
       /\ \E t \in pending \cup {inflight[id].sentAt + LatencyMs : id \in sent} :
             /\ t > now
             /\ \A p \in pending : t <= p
             /\ now' = t
       /\ UNCHANGED <<calls, log, limiterVars, cacheVars, resp, keyVars, clientVars, processEnv, engine>>

NextClient ==
    \/ \E id \in CallIds, op \in {"get", "getCached"}, req \in ClientRequests :
          ClientCall(id, op, req)
    \/ \E id \in CallIds, outcome \in Outcomes : ClientReceive(id, outcome)
    \/ \E id \in CallIds : ClientRetry(id)
    \/ \E id \in CallIds : ClientSettle(id)
    \/ ClientAdvance

SpecClient == InitClient /\ [][NextClient]_vars

\* the answers explored when the three operations are mixed: SpecCalls
CallOutcomes == {"ok", "e400", "e500", "network"}

NextCalls ==
    \/ \E id \in CallIds, op \in {"get", "post", "getCached"}, req \in ClientRequests :
          ClientCall(id, op, req)
    \/ \E id \in CallIds, outcome \in CallOutcomes : ClientReceive(id, outcome)
    \/ \E id \in CallIds : ClientRetry(id)
    \/ \E id \in CallIds : ClientSettle(id)
    \/ ClientAdvance

SpecCalls == InitClient /\ [][NextCalls]_vars

----------------------------------------------------------------------------
(* Requests to GET /api/address, whose upstream calls go through the client *)

AddressHeaders == [forwarded |-> <<>>, realIp |-> "ip1", cfIp |-> ""]

\* ?keyword=ab and ?keyword=a
AddressQueries ==
    { [keyword |-> "ab", keywordLen |-> 2, pageNo |-> 1, numOfRows |-> 10],
      [keyword |-> "a", keywordLen |-> 1, pageNo |-> 1, numOfRows |-> 10] }

\* the service runs in production; the limiter is new, or the client's bucket
\* or the caller's bucket has been used up at instant 0
InitAddress ==
    /\ now = 0
    /\ calls = 0
    /\ nextCleanup = CleanupIntervalMs
    /\ rlResult = NoResult
    /\ allowedAt = EmptyMap
    /\ deniedAt = EmptyMap
    /\ \/ rl = NewLimiter /\ log = {}
       \/ /\ rl = GateLimiter(0)
          /\ log = {LogRec("Rate limit check: allowed", {PrimarySecret})}
       \/ /\ rl = DrainedLimiter(AnonymousRequests)
          /\ log = {LogRec("Rate limit check: allowed", {"ip1"})}
    /\ IdleCache
    /\ \E e \in {Undefined, -DayMs} : keys = loadKeys([expiry |-> e, address |-> FALSE])
    /\ keyResult = NoKeyResult
    /\ IdleHttp
    /\ processEnv = [NODE_ENV |-> "production", STRICT_KOREA_BOUNDS |-> ""]
    /\ engine = NoEngineCall

\* what the handler did before its await takes effect
AddressCommit(r) ==
    /\ CommitWorld(r.world)
    /\ resp' = IF r.resp = NoResp THEN resp ELSE r.resp

\* a request arrives; the handler runs up to its await or to an early response
AddressGet(id, query) ==
    /\ inflight[id].phase = "idle"
    /\ \A j \in CallIds : j < id => inflight[j].phase # "idle"
    /\ calls < MaxAttempts
    /\ AddressCommit(addressGET(World, id,
                                [forwarded |-> AddressHeaders.forwarded,
                                 realIp |-> AddressHeaders.realIp,
                                 cfIp |-> AddressHeaders.cfIp, query |-> query], now))
    /\ calls' = calls + 1
    /\ UNCHANGED now

\* the awaited getCached has returned or thrown; the handler responds
AddressResume(id) ==
    /\ inflight[id].phase = "done"
    /\ inflight[id].admit # Null
    /\ LET r == addressResume(inflight[id]) IN
          /\ resp' = r.resp
          /\ log' = log \cup r.logs
    /\ inflight' = [inflight EXCEPT ![id].phase = "answered"]
    /\ UNCHANGED <<now, calls, limiterVars, cacheVars, keyVars, client, processEnv, engine>>

NextAddress ==
    \/ \E id \in CallIds, query \in AddressQueries : AddressGet(id, query)
    \/ \E id \in CallIds, outcome \in Outcomes : ClientReceive(id, outcome)
    \/ \E id \in CallIds : ClientRetry(id)
    \/ \E id \in CallIds : ClientSettle(id)
    \/ \E id \in CallIds : AddressResume(id)
    \/ ClientAdvance

SpecAddress == InitAddress /\ [][NextAddress]_vars

----------------------------------------------------------------------------
(* Claims about the cache *)

\* the entries of other keys that a step removed from the cache
Evicted(fullKey) ==
    {i \in 1..Len(cache.entries) :
        /\ cache.entries[i].key # fullKey
        /\ IndexOf(cache'.entries, cache.entries[i].key) = 0}

Survived(fullKey) ==
    {i \in 1..Len(cache.entries) :
        /\ cache.entries[i].key # fullKey
        /\ IndexOf(cache'.entries, cache.entries[i].key) # 0}

\* C15: strict LRU eviction.  A set evicts entries of other keys only when
\* the entry-count bound or the size bound would be exceeded, and then the
\* least recently used ones: every evicted entry was last accessed (set or
\* get hit) no later than every entry that stays, and a get hit makes its
\* entry the most recently used one.
C15_StrictLRU ==
    [][/\ cache'.stats.sets = cache.stats.sets + 1 =>
             LET fullKey == cacheResult'.key
                 others == SelectSeq(cache.entries, LAMBDA e : e.key # fullKey)
                 size == calculateSize(cacheResult'.value)
             IN /\ Evicted(fullKey) # {} =>
                       \/ Len(others) + 1 > cache.max
                       \/ calculatedSize(others) + size > cache.maxSize
                /\ \A i \in Evicted(fullKey), j \in Survived(fullKey) :
                       /\ i < j
                       /\ cache.entries[i].start <= cache.entries[j].start
                /\ IndexOf(cache'.entries, fullKey) \in {0, Len(cache'.entries)}
       /\ cache'.stats.hits = cache.stats.hits + 1 =>
             /\ cache'.entries # <<>>
             /\ cache'.entries[Len(cache'.entries)].key = cacheResult'.key
             /\ cache'.entries[Len(cache'.entries)].start = now
       /\ \A i, j \in 1..Len(cache'.entries) :
             i < j => cache'.entries[i].start <= cache'.entries[j].start]_vars

\* with room for two entries: a was set before b, a get at a later instant
\* refreshed a, and the set of a third key evicted b and kept a
C15_Witness ==
    /\ cache.max = SmallMax
    /\ cacheResult.op = "set"
    /\ cacheResult.key = buildKey("coordinate", "a")
    /\ Len(cache.entries) = 2
    /\ cache.entries[1].key = buildKey("realtime", "a")
    /\ cache.entries[1].createdAt = 0
    /\ cache.entries[1].start = 1000
    /\ cache.entries[1].hits = 1
    /\ buildKey("realtime", "b") \in DOMAIN lastSet
    /\ lastSet[buildKey("realtime", "b")].at = 0

\* C4: cache bounds.  After every cache operation the number of stored
\* entries is at most the configured max (1000 by default) and the sum of the
\* stored entries' computed sizes is at most the configured maxSize (50 MiB).
C4_CacheBounds ==
    /\ Len(cache.entries) <= cache.max
    /\ cache.max <= DefaultMax
    /\ calculatedSize(cache.entries) <= cache.maxSize
    /\ cache.maxSize = DefaultMaxSize

\* a set of a new key under the default limits that was stored at the price
\* of evicting older entries for their size
C4_Witness ==
    /\ cacheResult.op = "set"
    /\ ~cacheResult.hadKey
    /\ IndexOf(cache.entries, cacheResult.key) # 0
    /\ cache.max = DefaultMax
    /\ Len(cache.entries) <= cacheResult.countBefore

\* the get just made was for fullKey, whose last set was made at this very instant
\* by the operation before it
GetRightAfterSet(fullKey) ==
    /\ cacheResult.op = "set"
    /\ cacheResult.key = fullKey
    /\ cacheResult'.op = "get"
    /\ cacheResult'.key = fullKey
    /\ now' = lastSet[fullKey].at

\* the get just made was for fullKey, whose effective TTL had elapsed since its last set
GetAfterTTL(fullKey) ==
    /\ cacheResult'.op = "get"
    /\ cacheResult'.key = fullKey
    /\ calls' = calls + 1
    /\ fullKey \in DOMAIN lastSet
    /\ now' - lastSet[fullKey].at >= lastSet[fullKey].ttl

\* C5: cache TTL.  A set immediately followed by a get of the same key is a
\* hit with the value set; a get made once the effective TTL has elapsed
\* since the set is a miss, counts as one and leaves no entry for the key.
C5_CacheTTL ==
    [][\A fullKey \in CacheKeys :
          /\ GetRightAfterSet(fullKey) =>
                /\ cacheResult'.hit
                /\ cacheResult'.value = lastSet[fullKey].value
          /\ GetAfterTTL(fullKey) =>
                /\ ~cacheResult'.hit
                /\ cache'.stats.misses = cache.stats.misses + 1
                /\ IndexOf(cache'.entries, fullKey) = 0]_vars

------------------------------------------------------------------\* C16: cache expiry.  An entry is present exactly while now is before
\* created-at + effective TTL: at every instant, has is true and
\* getRemainingTTL is positive exactly when a get would hit, and the expiry
\* of an entry stays created-at + effective TTL whatever hits it had.
C16_Expiry ==
    /\ \A k \in CacheKeys :
          (cacheHas(cache, k[1], k[2], now) /\ getRemainingTTL(cache, k[1], k[2], now) > 0)
             <=> cacheGet(cache, k[1], k[2], now).result.hit
    /\ \A i \in 1..Len(cache.entries) :
          cache.entries[i].expiresAt = cache.entries[i].createdAt + cache.entries[i].ttl

----------
(* Claims about the key registry *)

\* the record getKey(provider) selects: the provider's own, or the primary one
SelectedRecord(provider) ==
    IF provider \in DOMAIN keys THEN keys[provider] ELSE keys["primary"]

\* C8: getKey(provider) returns a secret only if the record it selects (the
\* provider's own, or the primary one when the provider is unknown) is active
\* and its expiry instant is not in the past; in every other case, and when
\* there is no primary record, it fails with an APIKeyError.
C8_GetKey ==
    keyResult.op = "getKey" =>
        IF /\ (keyResult.provider \in DOMAIN keys \/ "primary" \in DOMAIN keys)
           /\ SelectedRecord(keyResult.provider).status = "active"
           /\ ~(SelectedRecord(keyResult.provider).expiryDate < now)
        THEN keyResult.ok => keyResult.key = SelectedRecord(keyResult.provider).key
        ELSE /\ ~keyResult.ok
             /\ isAppError(keyResult.error)
             /\ keyResult.error.code = "API_KEY_ERROR"

----------------------------------------------------------------------------------------------------------------------------------------------------------------------------------------------------------------------------------------------------------------
(* GET /api/health, and the key registry it reports on: SpecHealth *)

\* ApiKeyManager.getStats()
keyGetStats(registry, t) ==
    LET expired == {p \in DOMAIN registry : isExpired(registry[p].expiryDate, t)}
        soon == {p \in DOMAIN registry \ expired :
                    isExpiringSoon(registry[p].expiryDate, t)}
    IN [ totalKeys    |-> Cardinality(DOMAIN registry),
         activeKeys   |-> Cardinality((DOMAIN registry \ expired) \ soon),
         expiredKeys  |-> Cardinality(expired),
         expiringSoon |-> Cardinality(soon) ]

\* checkAllKeysExpiry(): the records it logs; it writes nothing
checkAllKeysExpiry(registry, t) ==
    LET alert(p) ==
            IF isExpired(registry[p].expiryDate, t)
            THEN {LogRec("API key expired", {}), LogRec("[EXPIRED]", {})}
            ELSE IF getDaysRemaining(registry[p].expiryDate, t) <= 7
            THEN {LogRec("API key expiring very soon", {}), LogRec("[URGENT]", {})}
            ELSE IF getDaysRemaining(registry[p].expiryDate, t) <= 30
            THEN {LogRec("API key expiring soon", {}), LogRec("[WARNING]", {})}
            ELSE {}
    IN UNION {alert(p) : p \in DOMAIN registry}

checkApiKeyManager(registry, t) ==
    IF keyGetStats(registry, t).activeKeys = 0 THEN "down"
    ELSE IF keyGetStats(registry, t).expiringSoon > 0 THEN "degraded"
    ELSE "healthy"

\* blockRate > 50, the rate being in hundredths of a percent
checkRateLimiter(limiter) ==
    IF limiterGetStats(limiter).blockRate > 5000 THEN "degraded" ELSE "healthy"

\* LRUCacheManager.getMemoryUsage().percentage, in hundredths of a percent
getMemoryUsage(c) == RatePercent(calculatedSize(c.entries), c.maxSize)

checkCache(c) == IF getMemoryUsage(c) > 9000 THEN "degraded" ELSE "healthy"

checkApiClient(stats) ==
    IF stats.totalRequests > 0 /\ clientGetStats(stats).successRate < 7000
    THEN "degraded" ELSE "healthy"

determineOverallStatus(statuses) ==
    IF "down" \in statuses THEN "down"
    ELSE IF "degraded" \in statuses THEN "degraded"
    ELSE "healthy"

NoCacheHeaders == Put(EmptyMap, "Cache-Control", "no-cache, no-store, must-revalidate")

\* the answer of a health check that ran: 503 only when the status is down
HealthAnswer(components, overallStatus) ==
    HttpResponse("health",
                 IF overallStatus = "healthy" THEN 200
                 ELSE IF overallStatus = "degraded" THEN 200 ELSE 503,
                 Envelope(TRUE, [status |-> overallStatus, components |-> components], Null),
                 NoCacheHeaders)

\* GET: detailed is the raw query parameter, "" when absent; the memory and
\* process figures of a detailed answer are left out
healthGET(registry, limiter, c, stats, detailed, t) ==
    LET components == [ apiKeyManager |-> checkApiKeyManager(registry, t),
                        rateLimiter   |-> checkRateLimiter(limiter),
                        cache         |-> checkCache(c),
                        apiClient     |-> checkApiClient(stats) ]
    IN IF detailed \notin {"", "true", "false"}
       THEN [ resp |-> HttpResponse("health", 400,
                          Envelope(FALSE, Null,
                                   [code |-> "VALIDATION_ERROR",
                                    message |-> "invalid request parameters"]),
                          EmptyMap),
              logs |-> {} ]
       ELSE [ resp |-> HealthAnswer(components,
                          determineOverallStatus({components[n] : n \in DOMAIN components})),
              logs |-> {LogRec("Health check completed", {})} ]

HealthGet(detailed) ==
    /\ resp' = healthGET(keys, rl, cache, client, detailed, now).resp
    /\ log' = log \cup healthGET(keys, rl, cache, client, detailed, now).logs
    /\ UNCHANGED <<now, calls, limiterVars, cacheVars, keyVars, clientVars, processEnv, engine>>

\* apiKeyManager.getStats() called directly
KeyGetStats ==
    /\ keyResult' = [op |-> "getStats", stats |-> keyGetStats(keys, now)]
    /\ UNCHANGED <<now, calls, log, keys, nonKeyVars>>

\* apiKeyManager.checkAllKeysExpiry(), directly or from the timer of startAutoCheck
CheckAllKeysExpiry ==
    /\ keyResult' = [op |-> "checkAllKeysExpiry"]
    /\ log' = log \cup checkAllKeysExpiry(keys, now)
    /\ UNCHANGED <<now, calls, keys, nonKeyVars>>

NextHealth ==
    \/ \E t \in KeyInstants : KeysTick(t)
    \/ \E p \in Providers : GetKey(p)
    \/ \E p \in Providers, st \in {"expired", "suspended"} : MarkStatus(p, st)
    \/ \E detailed \in {"", "true", "yes"} : HealthGet(detailed)
    \/ KeyGetStats
    \/ CheckAllKeysExpiry

SpecHealth == InitKeys /\ [][NextHealth]_vars

----------------
(* The statistics of the three components, reset while the client works *)

LimiterResetStats ==
    /\ rl' = limiterResetStats(rl)
    /\ log' = log \cup {LogRec("Rate limit stats reset", {})}
    /\ UNCHANGED <<now, calls, nextCleanup, rlResult, allowedAt, deniedAt, cacheVars, resp, keyVars,
                   clientVars, processEnv, engine>>

CacheResetStats ==
    /\ cache' = cacheResetStats(cache)
    /\ log' = log \cup {LogRec("Cache stats reset", {})}
    /\ UNCHANGED <<now, calls, limiterVars, cacheResult, lastSet, resp, keyVars, clientVars,
                   processEnv, engine>>

ClientResetStats ==
    /\ client' = clientResetStats(client)
    /\ log' = log \cup {LogRec("API client stats reset", {})}
    /\ UNCHANGED <<now, calls, limiterVars, cacheVars, resp, keyVars, inflight,
                   processEnv, engine>>

NextStats ==
    \/ \E id \in CallIds, req \in ClientRequests : ClientCall(id, "getCached", req)
    \/ \E id \in CallIds : ClientReceive(id, "ok")
    \/ \E id \in CallIds : ClientSettle(id)
    \/ ClientAdvance
    \/ LimiterResetStats
    \/ CacheResetStats
    \/ ClientResetStats

SpecStats == InitClient /\ [][NextStats]_vars

----------------------------------------------------------------------------
(* getCached called with several endpoints and parameter objects           *)

KeyEndpoints == {"/api", "/api?a=1"}

\* the same parameters in two orders, one parameter, and a value that holds
\* the separators of the key
KeyParams ==
    { <<>>,
      << <<"a", "1">> >>,
      << <<"a", "1">>, <<"b", "2">> >>,
      << <<"b", "2">>, <<"a", "1">> >>,
      << <<"a", "1&b=2">> >> }

KeyRequests == [type : {"address"}, endpoint : KeyEndpoints, params : KeyParams]

NextShare ==
    \/ \E id \in CallIds, req \in KeyRequests : ClientCall(id, "getCached", req)
    \/ \E id \in CallIds : ClientReceive(id, "ok")
    \/ \E id \in CallIds : ClientSettle(id)
    \/ ClientAdvance

SpecShare == InitClient /\ [][NextShare]_vars

----------------
(* The coordinate engine called directly: transform, validatePoint and
   detectSystem on a handful of points, in both notations *)

GeoPoint(longitude, latitude) == [longitude |-> longitude, latitude |-> latitude]

ProjectedPoint(x, y) == [x |-> x, y |-> y]

EnginePoints ==
    {GeoPoint(127, 38), GeoPoint(125, 38), GeoPoint(129, 38), GeoPoint(0, 0),
     GeoPoint(200, 38), GeoPoint(127, 100),
     ProjectedPoint(127, 38), ProjectedPoint(200, 100),
     ProjectedPoint(200000, 600000), ProjectedPoint(200000, 500000),
     ProjectedPoint(Infinity, 0)}

EngineSystems == CoordinateSystems \cup {"TOKYO"}

\* the calls whose outcome does not depend on proj4 away from a belt origin
Determined(point, from, to) ==
    \/ from \notin CoordinateSystems \/ to \notin CoordinateSystems
    \/ from = to
    \/ ~validatePoint(point, from)
    \/ KnownProj(from, to, pointToArray(point))

InitEngine ==
    /\ now = 0
    /\ calls = 0
    /\ log = {}
    /\ IdleLimiter
    /\ IdleCache
    /\ IdleHttp
    /\ IdleKeys
    /\ \E strict \in {"", "false"} :
            processEnv = [NODE_ENV |-> "development", STRICT_KOREA_BOUNDS |-> strict]
    /\ engine = NoEngineCall

EngineCommit(call) ==
    /\ engine' = call
    /\ UNCHANGED <<now, calls, log, limiterVars, cacheVars, resp, keyVars, clientVars,
                   processEnv>>

\* coordinateEngine.transform(point, from, to)
EngineTransform(point, from, to) ==
    /\ Determined(point, from, to)
    /\ EngineCommit([op |-> "transform", point |-> point, from |-> from, to |-> to,
                     moved |-> transform(point, from, to)])

\* coordinateEngine.validatePoint(point, system)
EngineValidate(point, system) ==
    EngineCommit([op |-> "validate", point |-> point, system |-> system,
                  threw |-> ~validatePoint(point, system),
                  errors |-> validationErrors(point, system),
                  warnings |-> validationWarnings(point, system,
                                                  processEnv.STRICT_KOREA_BOUNDS)])

\* coordinateEngine.detectSystem of the point the last transform returned
EngineDetect ==
    /\ engine.op = "transform"
    /\ engine.moved.ok
    /\ EngineCommit([op |-> "detect", point |-> engine.moved.point,
                     source |-> engine.point, from |-> engine.from, target |-> engine.to,
                     detected |-> detectSystem(engine.moved.point)])

\* the points of the batches: finite numbers, in and out of range
BatchPoints ==
    {GeoPoint(127, 38), GeoPoint(200, 38), GeoPoint(127, 100),
     ProjectedPoint(200000, 600000)}

\* lists of at most two points
BatchLists ==
    {<<>>} \cup {<<p>> : p \in BatchPoints} \cup {<<p, q>> : p \in BatchPoints, q \in BatchPoints}

\* the systems of the batches: degrees, metres, and a code that is none
BatchSystems == {"WGS84", "GRS80_CENTRAL", "TOKYO"}

\* coordinateEngine.transformBatch(points, from, to), and what transform
\* returns for each point of the list (the converter of a system to itself
\* is not modelled)
EngineTransformBatch(points, from, to) ==
    /\ from # to
    /\ \A i \in DOMAIN points : Determined(points[i], from, to)
    /\ EngineCommit([op |-> "batch", points |-> points, from |-> from, to |-> to,
                     moved |-> transformBatch(points, from, to),
                     each |-> [i \in DOMAIN points |-> transform(points[i], from, to)]])

NextEngine ==
    \/ \E point \in EnginePoints, from \in EngineSystems, to \in EngineSystems :
            EngineTransform(point, from, to)
    \/ \E points \in BatchLists, from \in BatchSystems, to \in BatchSystems :
            EngineTransformBatch(points, from, to)
    \/ \E point \in EnginePoints, system \in CoordinateSystems :
            EngineValidate(point, system)
    \/ EngineDetect

SpecEngine == InitEngine /\ [][NextEngine]_vars

----------------
(* Claims about the upstream client *)

CallsThat(P(_)) == {id \in CallIds : P(inflight[id])}

Succeeded(call) ==
    call.op = "getCached" /\ call.phase = "done" /\ ~call.threw
        /\ call.lastOutcome \in {"ok", "okNull"}

Wrote(call) == call.wrote

\* C6: whatever the interleaving of getCached calls, a call writes a cache
\* entry only after its own upstream request succeeded; a call whose send
\* fails, is refused by the rate-limit gate or times out throws and writes
\* nothing; and no envelope in the cache has success = false.
C6_WriteAfterSuccess ==
    /\ \A id \in CallIds : inflight[id].wrote => Succeeded(inflight[id])
    /\ \A id \in CallIds : inflight[id].threw =>
           /\ ~inflight[id].wrote
           /\ inflight[id].response = Null
    /\ cache.stats.sets = Cardinality(CallsThat(Wrote))
    /\ cache.stats.sets <= Cardinality(CallsThat(Succeeded))
    /\ \A i \in 1..Len(cache.entries) : cache.entries[i].value.success

\* a getCached call timed out and threw while another, sent while the first
\* was under way, succeeded and wrote the only entry
C6_Witness ==
    \E a, b \in CallIds :
        /\ a # b
        /\ inflight[a].op = "getCached" /\ inflight[a].threw
        /\ inflight[a].lastOutcome = "timeout"
        /\ inflight[b].wrote
        /\ inflight[b].sentAt >= inflight[a].sentAt
        /\ inflight[b].sentAt < inflight[a].sentAt + inflight[a].timeout
        /\ Len(cache.entries) = 1
        /\ cache.stats.sets = 1

RefusedByGate(call) == call.lastOutcome = "gate"

\* C11: when the gate's checkLimit(identifier, authenticated) returns
\* allowed = false, the client call fails with a RateLimitError
\* (RATE_LIMIT_EXCEEDED, 429), the refused attempt sends nothing upstream,
\* rateLimitedRequests goes up by one and nothing is stored in the cache.
C11_GateRefusal ==
    /\ \A id \in CallIds :
           RefusedByGate(inflight[id]) =>
               /\ inflight[id].phase = "done"
               /\ inflight[id].threw
               /\ isAppError(inflight[id].error)
               /\ inflight[id].error.code = "RATE_LIMIT_EXCEEDED"
               /\ inflight[id].error.statusCode = 429
               /\ inflight[id].sends = inflight[id].attempts - 1
               /\ ~inflight[id].wrote
               /\ inflight[id].response = Null
    /\ client.rateLimitedRequests = Cardinality(CallsThat(RefusedByGate))
    /\ rl.stats.blocked = client.rateLimitedRequests

\* a getCached call refused at its first attempt: nothing sent, nothing stored
C11_Witness ==
    \E id \in CallIds :
        /\ inflight[id].op = "getCached"
        /\ RefusedByGate(inflight[id])
        /\ inflight[id].attempts = 1
        /\ inflight[id].sends = 0
        /\ client.rateLimitedRequests = 1
        /\ cache.stats.sets = 0
        /\ cache.stats.misses = 1

\* the envelope stored under the key of a call, Null when there is none
StoredFor(call) ==
    LET i == IndexOf(cache.entries, buildKey(call.type, call.key)) IN
    IF i = 0 THEN Null ELSE cache.entries[i].value

ServedFromCache(call) ==
    call.op = "getCached" /\ call.phase = "done" /\ call.attempts = 0 /\ ~call.threw

\* C17: a getCached whose cache lookup hits returns the stored envelope with
\* metadata.cached = true and the data as stored, adds one to cachedRequests,
\* and fetches no credential, calls no rate limiter and sends nothing
\* upstream; and cachedRequests counts exactly those calls.
C17_CacheHit ==
    [][/\ \A id \in CallIds :
             (/\ inflight[id].phase = "idle"
              /\ inflight'[id].op = "getCached"
              /\ cacheGet(cache, inflight'[id].type, inflight'[id].key, now).result.hit) =>
                 LET stored == StoredFor(inflight'[id]) IN
                 /\ inflight'[id].phase = "done"
                 /\ ~inflight'[id].threw
                 /\ inflight'[id].response = [stored EXCEPT !.metadata.cached = TRUE]
                 /\ inflight'[id].response.metadata.cached
                 /\ inflight'[id].response.data = stored.data
                 /\ inflight'[id].attempts = 0
                 /\ inflight'[id].sends = 0
                 /\ client' = [client EXCEPT !.cachedRequests = @ + 1]
                 /\ keys' = keys
                 /\ rl' = rl
                 /\ cache'.stats = [cache.stats EXCEPT !.hits = @ + 1]
       /\ client'.cachedRequests = Cardinality({id \in CallIds : ServedFromCache(inflight'[id])})
      ]_vars

\* the first getCached was answered by the upstream and stored; the second,
\* for the same key, was served from the cache
C17_Witness ==
    \E a, b \in CallIds :
        /\ Succeeded(inflight[a]) /\ inflight[a].wrote
        /\ ~inflight[a].response.metadata.cached
        /\ ServedFromCache(inflight[b])
        /\ inflight[b].response.metadata.cached
        /\ inflight[b].response.data = Payload
        /\ client.cachedRequests = 1
        /\ client.totalRequests = 1
        /\ rl.stats.totalRequests = 1

\* C7: no log record written while an upstream request is processed (by the
\* client, the rate limiter or the cache) holds a full credential; a secret
\* shows at most as its first four characters followed by asterisks.
C7_NoFullCredential ==
    [][\A r \in log' \ log : r.fields \cap Secrets = {}]_vars

WellFormed(body) ==
    /\ (body.data # Null) # (body.error # Null)
    /\ body.success <=> (body.data # Null)

\* C9: every response body (of a handler, of toAPIResponse / toNextResponse,
\* of the client's normalizeResponse) has exactly one of data and error
\* non-null, and success is true exactly when data is non-null.
C9_Envelope ==
    /\ resp.op # "none" => WellFormed(resp.body)
    /\ \A id \in CallIds :
           /\ inflight[id].response # Null => WellFormed(inflight[id].response)
           /\ inflight[id].threw => WellFormed(toAPIResponse(inflight[id].error))

\* the classification of an upstream outcome (429, 5xx, other 4xx, connection, timeout)
Classified(outcome) ==
    CASE outcome = "e429" -> "Rate limit exceeded from external API"
      [] outcome = "e500" -> "External API server error"
      [] outcome = "e400" -> "External API client error"
      [] outcome = "network" -> "Cannot connect to external API"
      [] outcome = "timeout" -> "External API request timeout"

----------------------------------------------------------------------------
(* Claims about the handlers *)

\* a step of SpecBurst that is a coordinate GET (the GETs come from ip1)
IsGetStep ==
    /\ calls' = calls + 1
    /\ rlResult'.key = getBucketKey("ip1", "anonymous")

StillCached(fullKey) ==
    /\ fullKey \in DOMAIN lastSet
    /\ IndexOf(cache.entries, fullKey) # 0
    /\ now <= lastSet[fullKey].at + lastSet[fullKey].ttl

CachedForAWeek(response) ==
    /\ "Cache-Control" \in DOMAIN response.headers
    /\ response.headers["Cache-Control"] = "public, max-age=604800"

\* C31: an admitted, valid GET whose key no earlier GET has stored answers
\* 200 with metadata.cached = false after calling the engine, and stores
\* what it answers; the same GET repeated while that entry is still cached
\* answers 200 with metadata.cached = true and the transformed point the
\* first one stored, without calling the engine; both carry
\* Cache-Control: public, max-age=604800
C31_RepeatCached ==
    [][\A h \in RequestHeaders, q \in BurstQueries :
          (BurstGet(h, q) /\ rlResult'.allowed /\ SingleTransformValid(q)) =>
              LET fullKey == buildKey("coordinate", q.cacheKey) IN
              /\ resp'.status = 200
              /\ CachedForAWeek(resp')
              /\ IF StillCached(fullKey)
                 THEN /\ resp'.body.metadata.cached
                      /\ resp'.body.data.transformed = lastSet[fullKey].value
                      /\ engine' = NoEngineCall
                 ELSE /\ ~resp'.body.metadata.cached
                      /\ engine'.op = "transform"
                      /\ lastSet'[fullKey].value = resp'.body.data.transformed]_vars

\* a repeated GET has been answered from the cache
C31_Witness ==
    /\ resp.status = 200
    /\ "metadata" \in DOMAIN resp.body
    /\ resp.body.metadata.cached
    /\ resp.body.data.transformed = ProjectedPoint(127, 38)
    /\ cache.stats.hits = 1
    /\ cache.stats.sets = 1
    /\ engine = NoEngineCall

----------------------------------------------------------------------------
(* Claims about the rate limiter *)

RECURSIVE SumOver(_, _)
SumOver(h, S) ==
    IF S = {} THEN 0
    ELSE LET x == CHOOSE y \in S : TRUE IN h[x] + SumOver(h, S \ {x})

\* allowed checkLimit calls on bucket key inside the window [t1, t2]
AllowedIn(key, t1, t2) ==
    SumOver(allowedAt[key], {t \in DOMAIN allowedAt[key] : t1 <= t /\ t <= t2})

\* floor(W x refillRate) for a window of W ms: refillRate = 1 / Scale(tier)
WindowRefill(tier, W) == W \div Scale(tier)

\* the decimal rendering of a positive number of seconds
IsPositiveDecimal(text) == \E n \in 1..(WindowMs \div 1000) : text = ToString(n)

\* C3: a burst.  Starting from no bucket and with no time elapsing, exactly the
\* first capacity checkLimit calls of a (tier, identifier) are allowed, remaining
\* going down by one per call to 0 and limit being the tier's capacity (100,
\* 1000, 10000); every later call is refused with remaining 0 and retryAfter > 0.
\* The 101st coordinate GET of one source is a 429 with error code
\* RATE_LIMIT_EXCEEDED, Retry-After > 0 and X-RateLimit-Remaining: 0.
C3_Burst ==
    calls >= 1 =>
        LET tier == rlResult.key[1]
            capacity == PolicyRequests(tier)
        IN
        /\ capacity = (CASE tier = "anonymous" -> 100
                         [] tier = "authenticated" -> 1000
                         [] tier = "premium" -> 10000)
        /\ rlResult.limit = capacity
        /\ (calls <= capacity) =>
              (rlResult.allowed /\ rlResult.remaining = capacity - calls)
        /\ (calls > capacity) =>
              (~rlResult.allowed /\ rlResult.remaining = 0 /\ rlResult.retryAfter > 0)
        /\ (resp.op = "GET" /\ calls <= AnonymousRequests) => resp.status # 429
        /\ (resp.op = "GET" /\ calls > AnonymousRequests) =>
              /\ resp.status = 429
              /\ resp.body.error.code = "RATE_LIMIT_EXCEEDED"
              /\ "Retry-After" \in DOMAIN resp.headers
              /\ IsPositiveDecimal(resp.headers["Retry-After"])
              /\ resp.headers["X-RateLimit-Remaining"] = "0"

\* the 101st GET of the source has been answered, the 100 before it having
\* drawn on the cache
C3_Witness ==
    /\ resp.op = "GET"
    /\ calls = AnonymousRequests + 1
    /\ resp.status = 429
    /\ cache.stats.hits > 0

\* the burst reaches the drained state the limiter's exploration starts from
BurstReachesDrained == rl = DrainedLimiter(Preload)

\* C13: checkLimit is atomic per bucket.  Whatever the interleaving of the
\* callers, each call decides on the tokens the bucket holds after the refill
\* for the time elapsed since the previous operation on it, an admitted call
\* takes exactly one token, a denied call none, and no other bucket changes:
\* once the last whole token is taken every later call is denied until the
\* refill has brought the tokens back to one, and no token admits two calls.
C13_Linearizable ==
    [][rl'.stats.totalRequests = rl.stats.totalRequests + 1 =>
          LET key   == rlResult'.key
              tier  == key[1]
              full  == PolicyRequests(tier) * Scale(tier)
              had   == key \in DOMAIN rl.buckets
              held  == IF had THEN rl.buckets[key].tokens ELSE full
              since == IF had THEN Max(0, now - rl.buckets[key].lastRefill) ELSE 0
              avail == Min(full, held + since)
          IN /\ rlResult'.op = "checkLimit"
             /\ rlResult'.allowed <=> avail >= Scale(tier)
             /\ rl'.buckets[key].tokens =
                    IF rlResult'.allowed THEN avail - Scale(tier) ELSE avail
             /\ rl'.stats.allowed + rl'.stats.blocked
                    = rl.stats.allowed + rl.stats.blocked + 1
             /\ rl'.stats.allowed = rl.stats.allowed + (IF rlResult'.allowed THEN 1 ELSE 0)
             /\ \A k \in DOMAIN rl.buckets \ {key} :
                    k \in DOMAIN rl'.buckets /\ rl'.buckets[k] = rl.buckets[k]]_vars

\* the last token of a bucket was taken, the next call was denied, and a call
\* after the refill of one token was admitted
C13_Witness ==
    /\ rlResult.op = "checkLimit"
    /\ rlResult.key = getBucketKey("ip1", "anonymous")
    /\ rlResult.allowed
    /\ rlResult.remaining = 0
    /\ rl.stats.allowed = Preload + 2
    /\ rl.stats.blocked = 1

\* C14: rate-limit monotonicity.  If checkLimit is denied at time t with
\* retryAfter = r, a checkLimit on the same bucket at a time earlier than
\* t + r seconds, the bucket not having been touched in between, is denied too.
C14_Monotonic ==
    [][(/\ rl'.stats.totalRequests = rl.stats.totalRequests + 1
        /\ rlResult.op = "checkLimit"
        /\ ~rlResult.allowed
        /\ rlResult'.key = rlResult.key
        /\ rlResult.key \in DOMAIN rl.buckets
        /\ rl.violations # <<>>
        /\ now < rl.violations[Len(rl.violations)].timestamp + 1000 * rlResult.retryAfter)
       => ~rlResult'.allowed]_vars

\* C1: rate-limit conservation.  For every bucket and every window [t1, t2]
\* that holds no reset of the bucket, the allowed checkLimit calls inside the
\* window number at most capacity + floor((t2 - t1) x refillRate), also when
\* housekeeping removed the bucket and a later call recreated it.
C1_Conservation ==
    \A key \in DOMAIN allowedAt :
        \A t1, t2 \in DOMAIN allowedAt[key] :
            t1 <= t2 =>
                AllowedIn(key, t1, t2)
                    <= PolicyRequests(key[1]) + WindowRefill(key[1], t2 - t1)

\* a window that is exactly full: more than capacity calls were allowed in it,
\* the surplus being what the refill produced
C1_Witness ==
    \E key \in DOMAIN allowedAt :
        \E t1, t2 \in DOMAIN allowedAt[key] :
            /\ t1 < t2
            /\ AllowedIn(key, t1, t2) > PolicyRequests(key[1])
            /\ AllowedIn(key, t1, t2)
                   = PolicyRequests(key[1]) + WindowRefill(key[1], t2 - t1)

\* C2: every stored bucket has 0 <= tokens <= capacity, the capacity of its
\* tier's request budget and the refill rate capacity / window.
C2_BucketInvariant ==
    \A key \in DOMAIN rl.buckets :
        LET b == rl.buckets[key] IN
        /\ 0 <= b.tokens
        /\ b.tokens <= b.capacity * Scale(key[1])
        /\ b.capacity = PolicyRequests(key[1])
        /\ b.refillRate * PolicyWindow(key[1]) = b.capacity * Scale(key[1])

\* a bucket that was drawn from and later refilled up to the clamp
C2_Witness ==
    \E key \in DOMAIN rl.buckets :
        /\ key \in DOMAIN allowedAt
        /\ rl.buckets[key].lastRefill > 0
        /\ rl.buckets[key].tokens = rl.buckets[key].capacity * Scale(key[1])

----------------------------------------------------------------------------
(* Claims about the error responses *)

\* C18: every 429 response, whether the handler's own checkLimit refused the
\* request or the client's gate did (a RateLimitError converted by
\* toNextResponse), carries Retry-After with a positive number of seconds and
\* X-RateLimit-Limit, X-RateLimit-Remaining and X-RateLimit-Reset.
C18_RateLimitHeaders ==
    resp.status = 429 =>
        /\ {"Retry-After", "X-RateLimit-Limit", "X-RateLimit-Remaining", "X-RateLimit-Reset"}
               \subseteq DOMAIN resp.headers
        /\ IsPositiveDecimal(resp.headers["Retry-After"])

\* the codes of the taxonomy
ErrorCodes ==
    { "AUTH_ERROR", "API_KEY_ERROR", "AUTHORIZATION_ERROR", "VALIDATION_ERROR",
      "SCHEMA_VALIDATION_ERROR", "NOT_FOUND", "RATE_LIMIT_EXCEEDED", "EXTERNAL_API_ERROR",
      "TIMEOUT_ERROR", "SERVICE_UNAVAILABLE", "INTERNAL_SERVER_ERROR", "COORDINATE_ERROR",
      "CACHE_ERROR", "CONFIGURATION_ERROR" }

\* C19: every error envelope (success = false) returned by a handler, and
\* every ErrorInfo that toErrorInfo or handleError produces for a thrown
\* value, AppError or not, carries an error.code of the closed taxonomy.
C19_ClosedTaxonomy ==
    /\ (resp.op # "none" /\ ~resp.body.success) => resp.body.error.code \in ErrorCodes
    /\ \A id \in CallIds :
           inflight[id].threw =>
               /\ toErrorInfo(inflight[id].error).code \in ErrorCodes
               /\ handleError(inflight[id].error, processEnv.NODE_ENV).error.code \in ErrorCodes

\* the calls that failed on an answer, or the lack of one, of the upstream
FailedUpstream(call) == call.threw /\ call.lastOutcome \in Outcomes

\* C20: an upstream call that exceeds its deadline (ECONNABORTED) is reported
\* as a timeout: code TIMEOUT_ERROR, status 504, retryable; and upstream
\* failures of different classes (429, 5xx, other 4xx, connection, timeout)
\* are reported with different codes.
C20_TimeoutClass ==
    /\ \A id \in CallsThat(FailedUpstream) :
           inflight[id].lastOutcome = "timeout" =>
               /\ isAppError(inflight[id].error)
               /\ inflight[id].error.code = "TIMEOUT_ERROR"
               /\ inflight[id].error.statusCode = 504
               /\ inflight[id].error.retryable
    /\ \A a, b \in CallsThat(FailedUpstream) :
           inflight[a].class # inflight[b].class =>
               inflight[a].error.code # inflight[b].error.code

\* the request asks for a system that is not supported, or the engine
\* rejects its point
BadCoordinateRequest(query) ==
    LET to == IF query.to = "" THEN "WGS84" ELSE query.to IN
    \/ query.from \notin CoordinateSystems
    \/ to \notin CoordinateSystems
    \/ ~transform([x |-> query.x, y |-> query.y], query.from, to).ok

\* C21: an admitted coordinate-transform request whose point is invalid for
\* the source system, or whose source or target system is unknown, is
\* answered with status 400, code COORDINATE_ERROR and retryable = false.
C21_CoordinateError ==
    [][\A headers \in RequestHeaders, query \in BurstQueries :
          (BurstGet(headers, query) /\ rlResult'.allowed /\ BadCoordinateRequest(query)) =>
              /\ resp'.status = 400
              /\ resp'.body.error.code = "COORDINATE_ERROR"
              /\ "retryable" \in DOMAIN resp'.body.error
              /\ ~resp'.body.error.retryable]_vars

\* C22: in production, an error envelope whose code is INTERNAL_SERVER_ERROR
\* or no code of the taxonomy (as for a plain Error thrown in a handler) has
\* no details, and its message is the generic phrase, not the error's own.
C22_ProductionMasking ==
    (/\ processEnv.NODE_ENV = "production"
     /\ resp.op # "none"
     /\ ~resp.body.success
     /\ (resp.body.error.code = "INTERNAL_SERVER_ERROR"
            \/ resp.body.error.code \notin ErrorCodes)) =>
        /\ "details" \notin DOMAIN resp.body.error
        /\ resp.body.error.message = GenericMessage

----------------------------------------------------------------------------
(* Claims about the coordinate engine *)

\* the last call of the engine was transform(P, S, S) with S a known system
SameSystemCall ==
    /\ engine.op = "transform"
    /\ engine.from = engine.to
    /\ engine.from \in CoordinateSystems

\* C23: transform(P, S, S) does not throw and returns P in {x, y} notation:
\* x is the longitude (or x) of P and y its latitude (or y), unchanged
C23_SameSystemIdentity ==
    SameSystemCall =>
        /\ engine.moved.ok
        /\ DOMAIN engine.moved.point = {"x", "y"}
        /\ engine.moved.point.x = pointToArray(engine.point)[1]
        /\ engine.moved.point.y = pointToArray(engine.point)[2]

\* a point in longitude/latitude notation went through the same-system shortcut
C23_Witness ==
    /\ SameSystemCall
    /\ IsGeoPoint(engine.point)
    /\ engine.moved.ok
    /\ engine.moved.point = ProjectedPoint(127, 38)

\* the longitude and latitude of a point of a degree system, in either notation
OutsideDefinition(point) ==
    \/ OutOfRange(pointToArray(point)[1], -180, 180)
    \/ OutOfRange(pointToArray(point)[2], -90, 90)

OutsideKorea(point) ==
    \/ OutOfRange(pointToArray(point)[1], 124, 132)
    \/ OutOfRange(pointToArray(point)[2], 33, 43)

\* C24: for a degree system validatePoint throws exactly for the points
\* outside the definition range, in either notation, and so does transform
\* from that system to another; a point inside the definition range and
\* outside Korea gives a warning (unless STRICT_KOREA_BOUNDS is 'false')
C24_DegreeRange ==
    /\ (engine.op = "validate" /\ SystemUnit(engine.system) = "degree") =>
            /\ engine.threw <=> OutsideDefinition(engine.point)
            /\ ( /\ ~OutsideDefinition(engine.point)
                 /\ OutsideKorea(engine.point)
                 /\ processEnv.STRICT_KOREA_BOUNDS # "false" ) => engine.warnings # {}
    /\ ( /\ engine.op = "transform"
         /\ engine.from \in CoordinateSystems /\ engine.to \in CoordinateSystems
         /\ SystemUnit(engine.from) = "degree" /\ engine.to # engine.from
         /\ OutsideDefinition(engine.point) ) => ~engine.moved.ok

\* the point lies in the Korean range of the system it is given in
InKorea(point, system) ==
    /\ InRange(pointToArray(point)[1], BoundsOf(system).minX, BoundsOf(system).maxX)
    /\ InRange(pointToArray(point)[2], BoundsOf(system).minY, BoundsOf(system).maxY)

\* C25: detectSystem of the point transform(P, F, S) returned for a point P
\* in Korea is S, or a system whose bounding box is that of S
C25_Autodetect ==
    (engine.op = "detect" /\ InKorea(engine.source, engine.from)) =>
        \/ engine.detected = engine.target
        \/ /\ engine.detected # NoSystem
           /\ BoundsOf(engine.detected) = BoundsOf(engine.target)

----------------------------------------------------------------------------
(* Claims about the statistics *)

\* what the limiter reports right after resetStats, but for activeBuckets
LimiterCountersZero(st) ==
    /\ st.totalRequests = 0 /\ st.allowed = 0 /\ st.blocked = 0 /\ st.violations = 0
    /\ st.blockRate = 0 /\ st.recentViolations = 0

CacheCountersZero(st) ==
    st.hits = 0 /\ st.misses = 0 /\ st.sets = 0 /\ st.deletes = 0 /\ st.hitRate = 0

ClientCountersZero(st) ==
    /\ st.totalRequests = 0 /\ st.successfulRequests = 0 /\ st.failedRequests = 0
    /\ st.cachedRequests = 0 /\ st.rateLimitedRequests = 0
    /\ st.cacheHitRate = 0 /\ st.successRate = 0

\* resetStats of the cache and of the client: counters and rates read zero,
\* a second resetStats changes nothing, the entries are as they were
OtherResetsZero ==
    /\ CacheResetStats =>
            /\ CacheCountersZero(cacheGetDetailedStats(cache'))
            /\ cacheResetStats(cache') = cache'
            /\ cache'.entries = cache.entries
            /\ cacheGetDetailedStats(cache').size = Len(cache.entries)
    /\ ClientResetStats =>
            /\ ClientCountersZero(clientGetStats(client'))
            /\ clientResetStats(client') = client'

\* C27 as stated: right after resetStats every reported number of the
\* limiter, activeBuckets included, of the cache and of the client reads
\* zero; a second resetStats changes nothing; buckets and entries are kept
C27_AllZero ==
    [][/\ LimiterResetStats =>
              /\ LimiterCountersZero(limiterGetStats(rl'))
              /\ limiterGetStats(rl').activeBuckets = 0
              /\ limiterResetStats(rl') = rl'
              /\ rl'.buckets = rl.buckets
       /\ OtherResetsZero]_vars

\* C27 amended: right after resetStats the counters, the derived rates and
\* recentViolations read zero, while activeBuckets still is the number of
\* buckets, which resetStats keeps; a second resetStats changes nothing;
\* buckets and cache entries are kept
C27_CountersZero ==
    [][/\ LimiterResetStats =>
              /\ LimiterCountersZero(limiterGetStats(rl'))
              /\ limiterGetStats(rl').activeBuckets = Cardinality(DOMAIN rl.buckets)
              /\ limiterResetStats(rl') = rl'
              /\ rl'.buckets = rl.buckets
       /\ OtherResetsZero]_vars

\* the three components have been reset after they had counted something,
\* and a bucket and a cache entry are still there
C27_Witness ==
    /\ {LogRec("Rate limit stats reset", {}), LogRec("Cache stats reset", {}),
        LogRec("API client stats reset", {})} \subseteq log
    /\ LimiterCountersZero(limiterGetStats(rl))
    /\ limiterGetStats(rl).activeBuckets > 0
    /\ CacheCountersZero(cacheGetDetailedStats(cache))
    /\ Len(cache.entries) > 0
    /\ ClientCountersZero(clientGetStats(client))
    /\ \E id \in CallIds : inflight[id].phase = "done"

\* the records of the sequence whose timestamp lies within the last hour
WithinLastHour(records) ==
    LET Recent(v) == v.timestamp > now - ViolationRetentionMs IN SelectSeq(records, Recent)

\* C28: at any time every record getViolations returns, for all callers or
\* for one, and every record getStats counts in recentViolations, has a
\* timestamp within the last hour
C28_ViolationRetention ==
    /\ getViolations(rl, "") = WithinLastHour(getViolations(rl, ""))
    /\ \A c \in Clients :
           getViolations(rl, c[1]) = WithinLastHour(getViolations(rl, c[1]))
    /\ limiterGetStats(rl).recentViolations = Len(WithinLastHour(rl.violations))

----------------------------------------------------------------------------
(* Claims about the housekeeping of the limiter *)

\* C29: a bucket is gone from the map once more than two hours (twice the
\* window) have passed since its last refill: every bucket in the map was
\* refilled at most two hours ago
C29_StaleReclaimed ==
    \A key \in DOMAIN rl.buckets : now - rl.buckets[key].lastRefill <= StaleBucketMs

----------------------------------------------------------------------------
(* Claims about the health check *)

\* the keys get dispenses: status active and not past their expiry date
DispensedKeys == {p \in DOMAIN keys : keys[p].status = "active"
                                       /\ ~isExpired(keys[p].expiryDate, now)}

\* C30: a health check reports the key registry down only when no key is
\* active and unexpired; when every key is active and unexpired and one of
\* them expires within 30 days the registry is degraded and the status 200
C30_KeyRegistryHealth ==
    [][\A detailed \in {"", "true"} :
          HealthGet(detailed) =>
              LET component == resp'.body.data.components.apiKeyManager IN
              /\ component = "down" => DispensedKeys = {}
              /\ ( /\ DispensedKeys = DOMAIN keys
                   /\ \E p \in DOMAIN keys : isExpiringSoon(keys[p].expiryDate, now) ) =>
                     component = "degraded" /\ resp'.status = 200]_vars

\* the records whose expiry date is past, and those expiring within 30 days
ExpiredRecords == {p \in DOMAIN keys : keys[p].expiryDate < now}

ExpiringRecords ==
    {p \in DOMAIN keys : /\ getDaysRemaining(keys[p].expiryDate, now) > 0
                          /\ getDaysRemaining(keys[p].expiryDate, now) <= 30}

\* C32: getStats counts as expired the records whose expiry is past, as
\* expiring soon those with 0 < days until expiry <= 30 and as active all
\* the others, so the three counts add up to totalKeys, the number of
\* records; getStats and checkAllKeysExpiry change no record
C32_StatsPartition ==
    [][/\ KeyGetStats =>
              /\ keyResult'.stats.totalKeys = Cardinality(DOMAIN keys)
              /\ keyResult'.stats.expiredKeys = Cardinality(ExpiredRecords)
              /\ keyResult'.stats.expiringSoon = Cardinality(ExpiringRecords)
              /\ keyResult'.stats.activeKeys =
                     Cardinality(DOMAIN keys \ (ExpiredRecords \cup ExpiringRecords))
              /\ keyResult'.stats.totalKeys =
                     keyResult'.stats.activeKeys + keyResult'.stats.expiredKeys
                     + keyResult'.stats.expiringSoon
              /\ keys' = keys
       /\ CheckAllKeysExpiry => keys' = keys]_vars

\* statistics taken at the very instant a key expires, with a second key
\* far from its expiry: both count as active
C32_Witness ==
    /\ keyResult.op = "getStats"
    /\ keyResult.stats = [totalKeys |-> 2, activeKeys |-> 2, expiredKeys |-> 0,
                          expiringSoon |-> 0]
    /\ \E p \in DOMAIN keys : keys[p].expiryDate = now

----------------------------------------------------------------------------
(* Claims about the limiter's queries and its buckets *)

\* C33: getStatus reports the allowed flag a checkLimit at the same instant
\* would return and the whole tokens that checkLimit would decide on (one
\* more than checkLimit leaves when it allows, 0 when it refuses); it takes
\* no token, records no violation and leaves the four counters unchanged;
\* a second getStatus at the same instant reports the same and changes nothing
C33_StatusWithoutConsuming ==
    [][\A c \in Clients :
          GetStatus(c[1], c[2]) =>
              LET key == getBucketKey(c[1], c[2])
                  check == checkLimit(rl, c[1], c[2], now)
                  again == getStatus(rl', c[1], c[2], now)
              IN /\ rlResult'.allowed = check.result.allowed
                 /\ rlResult'.remaining =
                        IF check.result.allowed THEN check.result.remaining + 1 ELSE 0
                 /\ rl'.buckets[key].tokens =
                        check.limiter.buckets[key].tokens
                        + (IF check.result.allowed THEN Scale(c[2]) ELSE 0)
                 /\ key \in DOMAIN rl.buckets =>
                        rl'.buckets[key].tokens >= rl.buckets[key].tokens
                 /\ rl'.stats = rl.stats
                 /\ rl'.violations = rl.violations
                 /\ again.result.remaining = rlResult'.remaining
                 /\ again.limiter = rl']_vars

\* getStatus asked about a bucket that a checkLimit had just emptied
C33_Witness ==
    /\ rlResult.op = "getStatus"
    /\ ~rlResult.allowed
    /\ rlResult.remaining = 0
    /\ rl.stats.totalRequests = Preload + 1
    /\ rl.stats.blocked = 0
    /\ rl.violations = <<>>

\* the step leaves every bucket but the one under key as it was
OthersUntouched(key) ==
    /\ DOMAIN rl'.buckets \ {key} = DOMAIN rl.buckets \ {key}
    /\ \A k \in DOMAIN rl.buckets \ {key} : rl'.buckets[k] = rl.buckets[k]

\* C34: checkLimit, getStatus and reset on one bucket leave every other
\* bucket, of another source in the same tier or of the same source in
\* another tier, as it was; after reset the bucket reads full capacity
C34_Independent ==
    [][\A c \in BucketClients :
          /\ (CheckLimit(c[1], c[2]) \/ GetStatus(c[1], c[2])) =>
                 OthersUntouched(getBucketKey(c[1], c[2]))
          /\ Reset(c[1], c[2]) =>
                 /\ OthersUntouched(getBucketKey(c[1], c[2]))
                 /\ getStatus(rl', c[1], c[2], now).result.remaining
                        = PolicyRequests(c[2])]_vars

\* ip2 has used its anonymous bucket and its authenticated bucket, ip1 has
\* emptied its own, and ip2's anonymous bucket has been reset since
C34_Witness ==
    /\ getBucketKey("ip2", "anonymous") \notin DOMAIN rl.buckets
    /\ getBucketKey("ip2", "authenticated") \in DOMAIN rl.buckets
    /\ getBucketKey("ip1", "anonymous") \in DOMAIN rl.buckets
    /\ rl.buckets[getBucketKey("ip1", "anonymous")].tokens < Scale("anonymous")
    /\ rl.buckets[getBucketKey("ip2", "authenticated")].tokens
           < AuthenticatedRequests * Scale("authenticated")
    /\ LogRec("Rate limit reset", {"ip2"}) \in log
    /\ LogRec("Rate limit check: allowed", {"ip2"}) \in log

\* how long after a housekeeping run the next call for a bucket comes
LaterDeltas == {0, 1, 18000, 3600000}

\* the call gives the same answer, and leaves the same bucket and the same
\* counters, with the limiter a as with the limiter b
SameOutcome(a, b, key) ==
    /\ a.result = b.result
    /\ a.limiter.buckets[key] = b.limiter.buckets[key]
    /\ a.limiter.stats = b.limiter.stats
    /\ a.limiter.violations = b.limiter.violations

\* C35: housekeeping removes only buckets whose last refill is more than
\* two hours old, and the first call for a removed bucket, a checkLimit or
\* a getStatus at that instant or later, returns what it would have
\* returned had the bucket been kept, and leaves the bucket and the
\* counters as it would have left them, so that no later call differs either
C35_CleanupUnobservable ==
    [][Cleanup =>
          /\ DOMAIN rl'.buckets \subseteq DOMAIN rl.buckets
          /\ \A key \in DOMAIN rl'.buckets : rl'.buckets[key] = rl.buckets[key]
          /\ rl'.stats = rl.stats /\ rl'.violations = rl.violations
          /\ \A c \in Clients :
                 getBucketKey(c[1], c[2]) \in DOMAIN rl.buckets \ DOMAIN rl'.buckets =>
                     /\ now - rl.buckets[getBucketKey(c[1], c[2])].lastRefill > StaleBucketMs
                     /\ \A d \in LaterDeltas :
                            /\ SameOutcome(checkLimit(rl', c[1], c[2], now + d),
                                            checkLimit(rl, c[1], c[2], now + d),
                                            getBucketKey(c[1], c[2]))
                            /\ SameOutcome(getStatus(rl', c[1], c[2], now + d),
                                            getStatus(rl, c[1], c[2], now + d),
                                            getBucketKey(c[1], c[2]))]_vars

\* housekeeping has removed a bucket that had been emptied, and a call has
\* recreated it since
C35_Witness ==
    /\ LogRec("Rate limit buckets cleaned up", {}) \in log
    /\ LogRec("Rate limit exceeded", {"ip1"}) \in log
    /\ now >= 3 * CleanupIntervalMs
    /\ rlResult.op = "checkLimit"
    /\ rlResult.key = getBucketKey("ip1", "anonymous")
    /\ rlResult.allowed
    /\ rlResult.remaining = AnonymousRequests - 1
    /\ rl.buckets[rlResult.key].lastRefill = now

----------------------------------------------------------------------------
(* Claims about the keys of the response cache                              *)

\* the set of (name, value) pairs of a parameter object
ParamSet(params) == {params[i] : i \in DOMAIN params}

\* the calls of getCached made so far
CachedCalls == {id \in CallIds : inflight[id].op = "getCached"}

\* two calls use the same entry of the cache
SameEntry(i, j) ==
    buildKey(inflight[i].type, inflight[i].key) = buildKey(inflight[j].type, inflight[j].key)

\* C36: the cache key of getCached depends on the endpoint and the set of
\* parameter pairs only: the same endpoint and parameters in any order give
\* the same entry, no parameters give the bare endpoint, and calls whose
\* endpoint or parameter set differ never use the same entry
C36_KeyFunction ==
    \A i \in CachedCalls :
        /\ inflight[i].request.params = <<>> => inflight[i].key = inflight[i].request.endpoint
        /\ \A j \in CachedCalls :
               SameEntry(i, j) <=>
                   /\ inflight[i].request.endpoint = inflight[j].request.endpoint
                   /\ ParamSet(inflight[i].request.params) = ParamSet(inflight[j].request.params)

\* the parts of C36 that hold: the order of the parameters does not matter
\* and no parameters give the bare endpoint
C36_OrderAndBare ==
    \A i \in CachedCalls :
        /\ inflight[i].request.params = <<>> => inflight[i].key = inflight[i].request.endpoint
        /\ \A j \in CachedCalls :
               /\ inflight[i].request.endpoint = inflight[j].request.endpoint
               /\ ParamSet(inflight[i].request.params) = ParamSet(inflight[j].request.params)
               => SameEntry(i, j)

\* a call answered from the entry that a call with another endpoint and
\* other parameters stored
C36_SharedEntry ==
    /\ client.cachedRequests = 1
    /\ inflight[1].request.endpoint # inflight[2].request.endpoint
    /\ ParamSet(inflight[1].request.params) # ParamSet(inflight[2].request.params)
    /\ inflight[2].phase = "done"
    /\ inflight[2].sends = 0

----------------------------------------------------------------------------
(* Claims about the accounting of the upstream client                       *)

\* the calls of get, post and getCached made so far
StartedCalls == {id \in CallIds : inflight[id].op # "none"}

\* C38: one get, post or getCached call takes at most one token of the
\* authenticated bucket (every send follows one allowed checkLimit of the
\* request interceptor) and adds exactly one to totalRequests, however many
\* retries it makes
C38_OncePerCall ==
    /\ \A id \in StartedCalls : inflight[id].sends <= 1
    /\ client.totalRequests = Cardinality(StartedCalls)

\* a call that took a second token for its retry
C38_TokenPerAttempt ==
    \E id \in StartedCalls :
        /\ inflight[id].sends = 2
        /\ client.totalRequests = Cardinality(StartedCalls)

\* a getCached answered from the cache that totalRequests does not count
C38_HitNotCounted ==
    /\ inflight[2].op = "getCached"
    /\ inflight[2].phase = "done"
    /\ inflight[2].sends = 0
    /\ client.cachedRequests = 1
    /\ client.totalRequests = 1

\* C39: after any calls the counters satisfy cachedRequests <= totalRequests
\* and successfulRequests + failedRequests <= totalRequests, so both rates
\* are percentages between 0 and 100 (RatePercent counts hundredths)
C39_RatesArePercentages ==
    /\ client.cachedRequests <= client.totalRequests
    /\ client.successfulRequests + client.failedRequests <= client.totalRequests
    /\ clientGetStats(client).cacheHitRate \in 0..10000
    /\ clientGetStats(client).successRate \in 0..10000

\* a success rate of 200 per cent: one call, answered at its second attempt
C39_SuccessRateAbove100 ==
    /\ client.totalRequests = 1
    /\ clientGetStats(client).successRate = 20000

----------------------------------------------------------------------------
(* Claims about the batches of the coordinate engine                        *)

\* transform fails for some point of the batch
SomeFails == \E i \in DOMAIN engine.each : ~engine.each[i].ok

\* C40: transformBatch agrees with transform element by element: it returns
\* at each position the point transform returns for that point, and it fails
\* with a CoordinateError whenever transform fails for some point of the list
C40_BatchAgrees ==
    engine.op = "batch" =>
        IF SomeFails
        THEN ~engine.moved.ok /\ engine.moved.error = EngineCoordinateError
        ELSE /\ engine.moved.ok
             /\ \A i \in DOMAIN engine.each : engine.moved.points[i] = engine.each[i].point

\* the part that holds: a batch whose points transform accepts one by one
\* returns the points transform returns
C40_ValidBatchAgrees ==
    engine.op = "batch" /\ ~SomeFails =>
        /\ engine.moved.ok
        /\ \A i \in DOMAIN engine.each : engine.moved.points[i] = engine.each[i].point

\* a batch of two valid points, converted as transform converts them
C40_ValidBatch ==
    /\ engine.op = "batch"
    /\ Len(engine.points) = 2
    /\ ~SomeFails
    /\ engine.moved.ok

\* a batch that returns although transform refuses one of its points
C40_Unvalidated ==
    /\ engine.op = "batch"
    /\ engine.from \in CoordinateSystems
    /\ engine.to \in CoordinateSystems
    /\ SomeFails
    /\ engine.moved.ok

\* a batch that fails with a TypeError for an unknown system
C40_TypeError ==
    /\ engine.op = "batch"
    /\ ~engine.moved.ok
    /\ engine.moved.error = EngineTypeError

====
